---- MODULE Spec2Model ----
(***************************************************************************)
(* Model of the market_scanner repository: the per-minute report           *)
(* dispatcher (scheduler.py), the recipient registry (telegram_users.py),  *)
(* the bot commands that write it (telegram_bot.py), report generation     *)
(* (report_generator.py, market_scanner.py, sma_strategy.py,               *)
(* portfolio_history.py) and the module-level broker session               *)
(* (ibkr_connection.py).                                                   *)
(*                                                                         *)
(* Python strings that the code inspects character by character (times,    *)
(* chat ids, command arguments) are tuples of one-character strings.       *)
(* An Optional value is a tuple of length 0 (None) or 1 (the value).       *)
(***************************************************************************)
EXTENDS Integers, Sequences, FiniteSets, TLC

VARIABLES
    TELEGRAM_CHAT_ID,        \* config: the chat the global report goes to ("" = unset)
    OWNER_TELEGRAM_CHAT_ID,  \* config: the chat that owns the broker account
    registry,                \* data/telegram_users.json
    clock,                   \* minute of the day of the scheduler's last tick
    ur,                      \* the job _run_user_reports: pc, users read, loop index, clock read
    gl,                      \* the job _run_scheduled_report: "idle" | "ready"
    due,                     \* this tick: chat ids whose should_run was true
    generated,               \* this tick: reports generate_report returned
    sent,                    \* this tick: deliveries made
    failed,                  \* this tick: reports that raised or were not sent, by chat id
    unsubscribed_at_tick,    \* chat ids unsubscribed at the tick and not subscribed since
    cmds,                    \* bot commands handled so far
    th,                      \* the scheduler's worker threads, one per job, step by step
    ib_instance,             \* ibkr_connection._ib_instance: 0 (None) or an IB object
    connected,               \* the referenced IB objects whose session is connected
    leaked,                  \* an IB object was left connected with no reference to it
    wr,                      \* the processes that call upsert_user, step by step
    call,                    \* a call of one of the pure functions: its name and arguments
    ret                      \* what that call returned, once it has

\* ------------------------------------------------------------------ strings

Digits == <<"0", "1", "2", "3", "4", "5", "6", "7", "8", "9">>

DigitChars == {Digits[i] : i \in 1..10}

\* characters str.isdigit() accepts and int() rejects with ValueError, such
\* as the superscript two
OtherDigitChars == {"sup2"}

\* str.isdigit() on a string of the modelled alphabet
isdigit(s) ==
    Len(s) > 0 /\ \A i \in 1..Len(s) : s[i] \in DigitChars \cup OtherDigitChars

\* int(s) raises ValueError on a string isdigit() accepts
int_raises(s) == \E i \in 1..Len(s) : s[i] \notin DigitChars

DigitVal(c) == (CHOOSE i \in 1..10 : Digits[i] = c) - 1

\* int(s) for a string of decimal digits
RECURSIVE int(_)
int(s) == IF Len(s) = 0 THEN 0
          ELSE 10 * int(SubSeq(s, 1, Len(s) - 1)) + DigitVal(s[Len(s)])

\* str(n) for n >= 0
RECURSIVE str(_)
str(n) == IF n < 10 THEN <<Digits[n + 1]>>
          ELSE str(n \div 10) \o <<Digits[(n % 10) + 1]>>

\* f"{n:02d}" for 0 <= n
Fmt02d(n) == IF n < 10 THEN <<"0">> \o str(n) ELSE str(n)

\* "%-H:%M": the hour without its leading zero
strftime_unpadded(hour, minute) == str(hour) \o <<":">> \o Fmt02d(minute)

\* now.strftime("%H:%M") for a minute of the day
strftime_HM(hour, minute) == Fmt02d(hour) \o <<":">> \o Fmt02d(minute)

\* Optional values
None == <<>>
Some(v) == <<v>>

\* ------------------------------------------------------------------- config

T0800 == <<"0", "8", ":", "0", "0">>
T2000 == <<"2", "0", ":", "0", "0">>
T0200 == <<"0", "2", ":", "0", "0">>

REPORT_TIMES == <<T0800, T2000>>

SPY == <<"S", "P", "Y">>
QQQ == <<"Q", "Q", "Q">>
AAPL == <<"A", "A", "P", "L">>
MSFT == <<"M", "S", "F", "T">>
GOOGL == <<"G", "O", "O", "G", "L">>
AMZN == <<"A", "M", "Z", "N">>
META == <<"M", "E", "T", "A">>
NVDA == <<"N", "V", "D", "A">>
TSLA == <<"T", "S", "L", "A">>
MU == <<"M", "U">>

SCAN_SYMBOLS == <<SPY, QQQ, AAPL, MSFT, GOOGL, AMZN, META, NVDA, TSLA, MU>>

MARKET_INDICATORS == <<SPY, QQQ>>

TRADE_SYMBOLS == <<SPY, QQQ, AAPL, MSFT>>

NOTIFICATION_METHODS == <<"telegram">>

\* ---------------------------------------------------------- telegram_users

_is_valid_hhmm(t) ==
    IF Len(t) # 5 \/ t[3] # ":" THEN FALSE
    ELSE LET hh == SubSeq(t, 1, 2)
             mm == SubSeq(t, 4, 5)
         IN  IF ~isdigit(hh) \/ ~isdigit(mm) THEN FALSE
             ELSE 0 <= int(hh) /\ int(hh) <= 23 /\ 0 <= int(mm) /\ int(mm) <= 59

\* "x or y" on an Optional list: the list when it is set and not empty
Truthy(opt) == opt # None /\ opt[1] # <<>>

effective_symbols(user) ==
    IF Truthy(user.symbols) THEN user.symbols[1] ELSE SCAN_SYMBOLS

effective_strategy_symbols(user) ==
    IF Truthy(user.symbols) THEN user.symbols[1] ELSE TRADE_SYMBOLS

effective_times(user) ==
    LET base == IF Truthy(user.times) THEN user.times[1] ELSE REPORT_TIMES
        cleaned == SelectSeq(base, _is_valid_hhmm)
    IN  IF cleaned # <<>> THEN cleaned ELSE <<T0800, T2000>>

NewUser(chat_id) ==
    [chat_id |-> chat_id, subscribed |-> TRUE, symbols |-> None,
     times |-> None, frequency_minutes |-> None]

\* The registry document: the entries of the JSON object in insertion order,
\* each keyed by str(chat_id).
RECURSIVE KeyIndex(_, _)
KeyIndex(data, key) ==
    IF data = <<>> THEN 0
    ELSE IF data[Len(data)].key = key /\ KeyIndex(SubSeq(data, 1, Len(data) - 1), key) = 0
         THEN Len(data)
         ELSE KeyIndex(SubSeq(data, 1, Len(data) - 1), key)

get_user(data, chat_id) ==
    LET i == KeyIndex(data, str(chat_id))
    IN  IF i = 0 THEN None ELSE Some(data[i].user)

\* the document kept as a list that every write appends to
upsert_user_append(data, user) ==
    Append(data, [key |-> str(user.chat_id), user |-> user])

upsert_user(data, user) ==
    LET key == str(user.chat_id)
        i == KeyIndex(data, key)
    IN  IF i = 0 THEN Append(data, [key |-> key, user |-> user])
        ELSE [data EXCEPT ![i] = [key |-> key, user |-> user]]

all_users(data) == [i \in 1..Len(data) |-> data[i].user]

\* -------------------------------------------------------------- telegram_bot

LowerCase == <<"a", "b", "c", "d", "e", "f", "g", "h", "i", "j", "k", "l", "m",
               "n", "o", "p", "q", "r", "s", "t", "u", "v", "w", "x", "y", "z">>

UpperCase == <<"A", "B", "C", "D", "E", "F", "G", "H", "I", "J", "K", "L", "M",
               "N", "O", "P", "Q", "R", "S", "T", "U", "V", "W", "X", "Y", "Z">>

\* str.upper(), character by character
upper(s) ==
    [i \in 1..Len(s) |->
        IF \E k \in 1..26 : LowerCase[k] = s[i]
        THEN UpperCase[CHOOSE k \in 1..26 : LowerCase[k] = s[i]]
        ELSE s[i]]

\* str.split(): the maximal runs of non-blank characters from position i on,
\* cur being the run read so far
RECURSIVE SplitFrom(_, _, _)
SplitFrom(s, i, cur) ==
    IF i > Len(s) THEN (IF cur = <<>> THEN <<>> ELSE <<cur>>)
    ELSE IF s[i] = " "
         THEN (IF cur = <<>> THEN <<>> ELSE <<cur>>) \o SplitFrom(s, i + 1, <<>>)
         ELSE SplitFrom(s, i + 1, Append(cur, s[i]))

split(s) == SplitFrom(s, 1, <<>>)

_parse_list_arg(text) ==
    LET replaced == [i \in 1..Len(text) |-> IF text[i] = "," THEN " " ELSE text[i]]
        parts == split(replaced)
    IN  [i \in 1..Len(parts) |-> upper(parts[i])]

\* int(s) with Python's optional sign; ok = FALSE stands for ValueError
int_or_ValueError(s) ==
    LET signed == Len(s) > 0 /\ s[1] \in {"-", "+"}
        body == IF signed THEN SubSeq(s, 2, Len(s)) ELSE s
    IN  IF ~isdigit(body) \/ int_raises(body) THEN [ok |-> FALSE, value |-> 0]
        ELSE [ok |-> TRUE,
              value |-> IF signed /\ s[1] = "-" THEN 0 - int(body) ELSE int(body)]

\* get_user(chat_id) or TelegramUser(chat_id=chat_id, username=username)
get_or_new(data, chat_id) ==
    IF get_user(data, chat_id) = None THEN NewUser(chat_id)
    ELSE get_user(data, chat_id)[1]

\* Each handler as the registry document it leaves behind.
_handle_start(data, chat_id) ==
    IF get_user(data, chat_id) = None THEN upsert_user(data, NewUser(chat_id))
    ELSE data

_handle_subscribe(data, chat_id) ==
    upsert_user(data, [get_or_new(data, chat_id) EXCEPT !.subscribed = TRUE])

\* /unsubscribe as a hard delete of the entry
_handle_unsubscribe_deletes(data, chat_id) ==
    LET others(e) == e.key # str(chat_id)
    IN  SelectSeq(data, others)

_handle_unsubscribe(data, chat_id) ==
    upsert_user(data, [get_or_new(data, chat_id) EXCEPT !.subscribed = FALSE])

_handle_setsymbols(data, chat_id, args) ==
    LET symbols == _parse_list_arg(args)
    IN  IF symbols = <<>> THEN data
        ELSE upsert_user(data, [get_or_new(data, chat_id) EXCEPT !.symbols = Some(symbols)])

\* the shape test of the validation loop of /settimes
settimes_shape(t) ==
    /\ Len(t) = 5
    /\ t[3] = ":"
    /\ isdigit(SubSeq(t, 1, 2))
    /\ isdigit(SubSeq(t, 4, 5))

\* int(t[:2]) or int(t[3:]) raises in the loop; the handler does not catch it
settimes_raises(times) ==
    \E k \in 1..Len(times) :
        /\ settimes_shape(times[k])
        /\ int_raises(SubSeq(times[k], 1, 2)) \/ int_raises(SubSeq(times[k], 4, 5))

\* the times as typed, without validation
settimes_unvalidated(times) == times

\* the validation loop of /settimes
RECURSIVE settimes_cleaned(_)
settimes_cleaned(times) ==
    IF times = <<>> THEN <<>>
    ELSE LET t == times[1]
             rest == settimes_cleaned(Tail(times))
         IN  IF ~settimes_shape(t)
             THEN rest
             ELSE LET h == int(SubSeq(t, 1, 2))
                      m == int(SubSeq(t, 4, 5))
                  IN  IF 0 <= h /\ h <= 23 /\ 0 <= m /\ m <= 59
                      THEN <<Fmt02d(h) \o <<":">> \o Fmt02d(m)>> \o rest
                      ELSE rest

\* /settimes that stores the times and keeps the frequency the entry had
_handle_settimes_keeps_frequency(data, chat_id, args) ==
    LET times == _parse_list_arg(args)
        cleaned == settimes_cleaned(times)
    IN  IF times = <<>> THEN data
        ELSE IF settimes_raises(times) THEN data
        ELSE IF cleaned = <<>> THEN data
        ELSE upsert_user(data, [get_or_new(data, chat_id) EXCEPT !.times = Some(cleaned)])

_handle_settimes(data, chat_id, args) ==
    LET times == _parse_list_arg(args)
        cleaned == settimes_cleaned(times)
    IN  IF times = <<>> THEN data
        ELSE IF settimes_raises(times) THEN data
        ELSE IF cleaned = <<>> THEN data
        ELSE upsert_user(data, [get_or_new(data, chat_id) EXCEPT
                                   !.times = Some(cleaned),
                                   !.frequency_minutes = None])

\* /setfrequency without the five-minute minimum
_handle_setfrequency_no_minimum(data, chat_id, args) ==
    LET words == split(args)
    IN  IF words = <<>> THEN data
        ELSE LET parsed == int_or_ValueError(words[1])
                 minutes == parsed.value
             IN  IF ~parsed.ok THEN data
                 ELSE IF minutes <= 0 THEN data
                 ELSE upsert_user(data, [get_or_new(data, chat_id) EXCEPT
                                            !.frequency_minutes = Some(minutes)])

_handle_setfrequency(data, chat_id, args) ==
    LET words == split(args)
    IN  IF words = <<>> THEN data
        ELSE LET parsed == int_or_ValueError(words[1])
                 minutes == parsed.value
             IN  IF ~parsed.ok THEN data
                 ELSE IF minutes <= 0 THEN data
                 ELSE IF minutes < 5 THEN data
                 ELSE upsert_user(data, [get_or_new(data, chat_id) EXCEPT
                                            !.frequency_minutes = Some(minutes)])

_handle_help(data, chat_id) == _handle_start(data, chat_id)

\* ------------------------------------------------------------------ notifier

\* send_telegram: the destination is the globally configured chat; nothing is
\* sent when it is not configured.  The result is the list of deliveries made.
send_telegram(message) ==
    IF TELEGRAM_CHAT_ID = <<>> THEN <<>>
    ELSE <<[dest |-> TELEGRAM_CHAT_ID, report |-> message]>>

\* send_report: every configured method in turn; only "telegram" delivers to
\* a chat.
RECURSIVE send_report_methods(_, _)
send_report_methods(methods, report) ==
    IF methods = <<>> THEN <<>>
    ELSE (IF methods[1] = "telegram" THEN send_telegram(report) ELSE <<>>)
         \o send_report_methods(Tail(methods), report)

send_report(report) == send_report_methods(NOTIFICATION_METHODS, report)

\* send_telegram_report_to_user(report, session, chat_id=...): the delivery
\* channel of section 6, deliver(renderedReportText, recipientAddress).
send_telegram_report_to_user(report, chat_id) ==
    <<[dest |-> chat_id, report |-> report]>>

\* ---------------------------------------------------------- report_generator

\* generate_report: the scan universe, whether the strategy section is built,
\* and the universe run_strategy is called with.
generate_report(symbols, include_strategy, strategy_symbols) ==
    [symbols |-> IF symbols # None THEN symbols[1] ELSE SCAN_SYMBOLS,
     include_strategy |-> include_strategy,
     strategy_symbols |-> IF ~include_strategy THEN <<>>
                          ELSE IF strategy_symbols # None THEN strategy_symbols[1]
                          ELSE TRADE_SYMBOLS]

\* ----------------------------------------------------------------- scheduler

\* str.split(":")
RECURSIVE SplitColonFrom(_, _, _)
SplitColonFrom(s, i, cur) ==
    IF i > Len(s) THEN <<cur>>
    ELSE IF s[i] = ":" THEN <<cur>> \o SplitColonFrom(s, i + 1, <<>>)
    ELSE SplitColonFrom(s, i + 1, Append(cur, s[i]))

_parse_time(time_str) ==
    LET parts == SplitColonFrom(time_str, 1, <<>>)
    IN  <<int(parts[1]), IF Len(parts) > 1 THEN int(parts[2]) ELSE 0>>

\* CronTrigger(hour=hour, minute=minute) of start_scheduler: the global report
\* job fires in the minutes named by REPORT_TIMES.
global_job_fires(minute_of_day) ==
    \E k \in 1..Len(REPORT_TIMES) :
        _parse_time(REPORT_TIMES[k]) = <<minute_of_day \div 60, minute_of_day % 60>>

\* "x in list"
In(x, list) == \E k \in 1..Len(list) : list[k] = x

\* the frequency trigger that also makes up, one minute late, for a missed tick
by_frequency_or_late(user, minute_of_day) ==
    /\ user.frequency_minutes # None
    /\ user.frequency_minutes[1] > 0
    /\ minute_of_day % user.frequency_minutes[1] \in {0, 1}

\* 1) the frequency-based trigger
by_frequency(user, minute_of_day) ==
    /\ user.frequency_minutes # None
    /\ user.frequency_minutes[1] # 0
    /\ user.frequency_minutes[1] > 0
    /\ minute_of_day % user.frequency_minutes[1] = 0

\* 2) the explicit times
by_time(user, current_time) == In(current_time, effective_times(user))

\* the trigger that ignores the clock: every minute once a frequency is set
should_run_any_minute(user, minute_of_day, current_time) ==
    user.frequency_minutes # None \/ by_time(user, current_time)

\* the trigger on which a frequency takes the place of the times
should_run_frequency_only(user, minute_of_day, current_time) ==
    IF user.frequency_minutes # None THEN by_frequency(user, minute_of_day)
    ELSE by_time(user, current_time)

\* the should_run flag of _run_user_reports
should_run(user, minute_of_day, current_time) ==
    by_frequency(user, minute_of_day) \/ by_time(user, current_time)

\* every recipient treated as the owner
is_owner_everyone(user) == TRUE

\* is_owner of _run_user_reports
is_owner(user) ==
    OWNER_TELEGRAM_CHAT_ID # <<>> /\ str(user.chat_id) = OWNER_TELEGRAM_CHAT_ID

\* the globally configured chat as the destination
delivery_chat_id_global(user) == TELEGRAM_CHAT_ID

\* the chat_id argument of the delivery call
delivery_chat_id(user) == str(user.chat_id)

\* the report of one due recipient
user_report(user) ==
    IF is_owner(user)
    THEN generate_report(Some(effective_symbols(user)), TRUE,
                         Some(effective_strategy_symbols(user)))
    ELSE generate_report(Some(effective_symbols(user)), FALSE, None)

\* the report of the global job
global_report(data) ==
    LET parsed == int_or_ValueError(OWNER_TELEGRAM_CHAT_ID)
        owner == IF OWNER_TELEGRAM_CHAT_ID # <<>> /\ parsed.ok
                 THEN get_user(data, parsed.value) ELSE None
    IN  IF owner # None
        THEN generate_report(Some(effective_symbols(owner[1])), TRUE,
                             Some(effective_strategy_symbols(owner[1])))
        ELSE generate_report(None, TRUE, None)

\* ------------------------------------------------------------------- bounds

\* bot commands handled in one behaviour
MaxCmds == 2

ChatIds == {1, 12}

\* the minutes of the day the scheduler's clock is observed at
TickMinutes == {120, 121, 180, 480, 1200}

\* command arguments as typed
SymbolArgs == {<<>>, <<"a", "a", "p", "l">>}

TimeArgs == {<<>>, <<"0", "2", ":", "0", "0">>,
             <<"0", "8", ":", "0", "0", ",", "2", "0", ":", "0", "0">>,
             <<"2", "5", ":", "0", "0">>,
             <<"1", "2", ":", "6", "0", ",", "0", "2", ":", "0", "0", " ", "8", ":", "0", "0">>,
             <<"0", "2", ":", "0", "0", ",", "sup2", "sup2", ":", "0", "0">>}

FreqArgs == {<<>>, <<"6", "0">>, <<"3">>, <<"0">>, <<"a", "b", "c">>, <<"-", "6", "0">>,
             <<"sup2">>}

\* what can happen to one report: generate_report, save_report or the send
\* raises, the send returns False, or all three succeed
Outcomes == {"ok", "generate_raises", "save_raises", "send_raises", "send_fails"}

Configs == {[chat |-> <<"1">>, owner |-> <<"1">>],
            [chat |-> <<"1", "2">>, owner |-> <<"1">>],
            [chat |-> <<>>, owner |-> <<>>]}

\* ---------------------------------------------------- the scheduler's jobs

vars == <<TELEGRAM_CHAT_ID, OWNER_TELEGRAM_CHAT_ID, registry, clock, ur, gl,
          due, generated, sent, failed, unsubscribed_at_tick, cmds,
          th, ib_instance, connected, leaked, wr, call, ret>>

fn_vars == <<call, ret>>

broker_vars == <<th, ib_instance, connected, leaked>>

config_vars == <<TELEGRAM_CHAT_ID, OWNER_TELEGRAM_CHAT_ID>>

log_vars == <<due, generated, sent, failed>>

IdleJob == [pc |-> "idle", users |-> <<>>, i |-> 0,
            current_time |-> <<>>, minute_of_day |-> 0]

\* the jobs start_scheduler adds; the scheduler runs each in a pool thread
Jobs == {"user_reports", "report_global"}

NoReport == [symbols |-> <<>>, include_strategy |-> FALSE, strategy_symbols |-> <<>>]

\* a worker thread with no job running
IdleThread ==
    [pc |-> "idle", users |-> <<>>, i |-> 0, rep |-> NoReport,
     phase |-> "none", ctx |-> "phase", k |-> 0, sub |-> "none", ib |-> 0,
     scope |-> FALSE, dropped |-> FALSE,
     connect_calls |-> 0, scans |-> 0, strategies |-> 0, sessions |-> 0]

\* the processes that write the registry: the bot's polling loop, and a
\* second one started over the same USERS_FILE
Writers == {"bot", "bot2"}

\* a process that is not inside a handler
IdleWriter == [pc |-> "idle", user |-> NewUser(0), data |-> <<>>]

\* no call of a pure function is being looked at
NoCall == [fn |-> "none"]

NotReturned == <<>>

BrokerIdle ==
    /\ call = NoCall
    /\ ret = NotReturned
    /\ wr = [w \in Writers |-> IdleWriter]
    /\ th = [j \in Jobs |-> IdleThread]
    /\ ib_instance = 0
    /\ connected = {}
    /\ leaked = FALSE

Init ==
    /\ \E c \in Configs :
          /\ TELEGRAM_CHAT_ID = c.chat
          /\ OWNER_TELEGRAM_CHAT_ID = c.owner
    /\ registry = <<>>
    /\ clock = 0
    /\ ur = IdleJob
    /\ gl = "idle"
    /\ due = <<>>
    /\ generated = <<>>
    /\ sent = <<>>
    /\ failed = <<>>
    /\ unsubscribed_at_tick = {}
    /\ cmds = 0
    /\ BrokerIdle

\* chat ids whose registry entry has subscribed = false
Unsubscribed(data) ==
    {data[k].user.chat_id : k \in {j \in 1..Len(data) : ~data[j].user.subscribed}}

\* The scheduler reaches minute m: the minutely job is submitted, and the
\* global job when m is one of REPORT_TIMES.  A job still running is not
\* started a second time.
SchedulerFires(m) ==
    /\ ur.pc \in {"idle", "done", "crashed"}
    /\ gl = "idle"
    /\ clock' = m
    /\ ur' = [IdleJob EXCEPT !.pc = "start"]
    /\ gl' = IF global_job_fires(m) THEN "ready" ELSE "idle"
    /\ due' = <<>>
    /\ generated' = <<>>
    /\ sent' = <<>>
    /\ failed' = <<>>
    /\ unsubscribed_at_tick' = Unsubscribed(registry)
    /\ UNCHANGED <<config_vars, registry, cmds, broker_vars, wr, fn_vars>>

Tick == \E m \in TickMinutes : SchedulerFires(m)

\* _run_user_reports up to the loop: the clock and the registry are read once.
run_user_reports_begin ==
    /\ ur.pc = "start"
    /\ LET hour == clock \div 60
           minute == clock % 60
           users == all_users(registry)
       IN  ur' = IF users = <<>> THEN [IdleJob EXCEPT !.pc = "done"]
                 ELSE [pc |-> "loop", users |-> users, i |-> 1,
                       current_time |-> strftime_HM(hour, minute),
                       minute_of_day |-> hour * 60 + minute]
    /\ UNCHANGED <<config_vars, registry, clock, gl, log_vars, unsubscribed_at_tick, cmds,
                 broker_vars, wr, fn_vars>>

\* the loop goes on to the next user, or the function returns
next_user(job) ==
    IF job.i >= Len(job.users) THEN [job EXCEPT !.pc = "done"]
    ELSE [job EXCEPT !.i = @ + 1]

\* the exception leaves the loop and the function
on_exception_propagates(job) == [job EXCEPT !.pc = "crashed"]

\* except Exception: logger.exception(...), and the loop goes on
on_exception(job) == next_user(job)

Tagged(deliveries, job, chat_id) ==
    [k \in 1..Len(deliveries) |->
        [job |-> job, chat_id |-> chat_id,
         dest |-> deliveries[k].dest, report |-> deliveries[k].report]]

\* the loop variable taken from the registry as it is now
current_user_reread(job, data) == all_users(data)[job.i]

\* "for user in users": the loop variable, taken from the list read at the
\* start of the run
current_user(job, data) == job.users[job.i]

\* one iteration of the loop of _run_user_reports
run_user_reports_user(outcome) ==
    /\ ur.pc = "loop"
    /\ LET user == current_user(ur, registry)
           report == user_report(user)
           entry == [job |-> "user_reports", chat_id |-> user.chat_id, report |-> report]
       IN  IF ~user.subscribed
           THEN ur' = next_user(ur) /\ UNCHANGED log_vars
           ELSE IF ~should_run(user, ur.minute_of_day, ur.current_time)
           THEN ur' = next_user(ur) /\ UNCHANGED log_vars
           ELSE /\ due' = Append(due, user.chat_id)
                /\ generated' = IF outcome = "generate_raises" THEN generated
                                ELSE Append(generated, entry)
                /\ sent' = IF outcome = "ok"
                           THEN sent \o Tagged(send_telegram_report_to_user(
                                                   report, delivery_chat_id(user)),
                                               "user_reports", user.chat_id)
                           ELSE sent
                /\ failed' = IF outcome = "ok" THEN failed
                             ELSE Append(failed, [chat_id |-> user.chat_id,
                                                  raised |-> outcome # "send_fails"])
                /\ ur' = IF outcome \in {"generate_raises", "save_raises", "send_raises"}
                         THEN on_exception(ur)
                         ELSE next_user(ur)
    /\ UNCHANGED <<config_vars, registry, clock, gl, unsubscribed_at_tick, cmds, broker_vars, wr, fn_vars>>

\* _run_scheduled_report, the global job
run_scheduled_report(outcome) ==
    /\ gl = "ready"
    /\ LET report == global_report(registry)
           entry == [job |-> "report_global", chat_id |-> 0, report |-> report]
       IN  /\ generated' = IF outcome = "generate_raises" THEN generated
                           ELSE Append(generated, entry)
           /\ sent' = IF outcome = "ok"
                      THEN sent \o Tagged(send_report(report), "report_global", 0)
                      ELSE sent
    /\ gl' = "idle"
    /\ UNCHANGED <<config_vars, registry, clock, ur, due, failed, unsubscribed_at_tick, cmds,
                   broker_vars, wr, fn_vars>>

\* ------------------------------------------------------- the bot's commands

Command(data) ==
    /\ cmds < MaxCmds
    /\ cmds' = cmds + 1
    /\ registry' = data
    /\ UNCHANGED <<config_vars, clock, ur, gl, log_vars, broker_vars, wr, fn_vars>>

start == \E c \in ChatIds :
    Command(_handle_start(registry, c)) /\ UNCHANGED unsubscribed_at_tick

help == \E c \in ChatIds :
    Command(_handle_help(registry, c)) /\ UNCHANGED unsubscribed_at_tick

subscribe == \E c \in ChatIds :
    /\ Command(_handle_subscribe(registry, c))
    /\ unsubscribed_at_tick' = unsubscribed_at_tick \ {c}

unsubscribe == \E c \in ChatIds :
    Command(_handle_unsubscribe(registry, c)) /\ UNCHANGED unsubscribed_at_tick

setsymbols == \E c \in ChatIds, args \in SymbolArgs :
    Command(_handle_setsymbols(registry, c, args)) /\ UNCHANGED unsubscribed_at_tick

settimes == \E c \in ChatIds, args \in TimeArgs :
    Command(_handle_settimes(registry, c, args)) /\ UNCHANGED unsubscribed_at_tick

setfrequency == \E c \in ChatIds, args \in FreqArgs :
    Command(_handle_setfrequency(registry, c, args)) /\ UNCHANGED unsubscribed_at_tick

Next ==
    \/ Tick
    \/ run_user_reports_begin
    \/ \E outcome \in Outcomes : run_user_reports_user(outcome)
    \/ \E outcome \in Outcomes : run_scheduled_report(outcome)
    \/ start
    \/ help
    \/ subscribe
    \/ unsubscribe
    \/ setsymbols
    \/ settimes
    \/ setfrequency

Spec == Init /\ [][Next]_vars

\* ------------------------------------------------------- a day of ticks

Arg60 == <<"6", "0">>
Arg45 == <<"4", "5">>
Arg0200 == <<"0", "2", ":", "0", "0">>
Arg0800_2000 == <<"0", "8", ":", "0", "0", ",", "2", "0", ":", "0", "0">>

\* Registries the bot's commands produce.
\* A: chat 1 /setfrequency 60; chat 12 /settimes 08:00,20:00
DayRegistryA ==
    _handle_settimes(_handle_setfrequency(<<>>, 1, Arg60), 12, Arg0800_2000)

\* B: chat 1 /settimes 02:00, /setfrequency 45; chat 12 /setfrequency 60, /unsubscribe
DayRegistryB ==
    _handle_unsubscribe(
        _handle_setfrequency(
            _handle_setfrequency(_handle_settimes(<<>>, 1, Arg0200), 1, Arg45),
            12, Arg60),
        12)

DayRegistries == {DayRegistryA, DayRegistryB}

InitDay ==
    /\ \E c \in Configs :
          /\ TELEGRAM_CHAT_ID = c.chat
          /\ OWNER_TELEGRAM_CHAT_ID = c.owner
    /\ registry \in DayRegistries
    /\ clock = 0
    /\ ur = IdleJob
    /\ gl = "idle"
    /\ due = <<>>
    /\ generated = <<>>
    /\ sent = <<>>
    /\ failed = <<>>
    /\ unsubscribed_at_tick = {}
    /\ cmds = 0
    /\ BrokerIdle

\* the scheduler's clock goes from one minute to the next, round the day
DayTick == SchedulerFires((clock + 1) % 1440)

NextDay ==
    \/ DayTick
    \/ run_user_reports_begin
    \/ \E outcome \in Outcomes : run_user_reports_user(outcome)
    \/ \E outcome \in Outcomes : run_scheduled_report(outcome)

SpecDay == InitDay /\ [][NextDay]_vars

\* ------------------------------------- the broker session, thread by thread
\*
\* BlockingScheduler runs each job in a thread of its default pool, so the
\* global job and the minutely dispatcher of one minute run side by side.
\* Both go through the module-level _ib_instance of ibkr_connection.  Here a
\* step is one read or write of that session.

\* IB objects alive at once: _ib_instance and one local per thread
ObjIds == 1..(Cardinality(Jobs) + 1)

\* the objects some name still refers to
Refs(glob, t) == {glob} \cup {t[j].ib : j \in Jobs}

\* IB(): an object no name refers to yet
new_IB(glob, t) ==
    LET free == ObjIds \ Refs(glob, t)
    IN  CHOOSE o \in free : \A p \in free : o <= p

\* get_connection(): _ib_instance, created when it is None; the value
\* returned is also the value of _ib_instance afterwards
get_connection(glob, t) == IF glob = 0 THEN new_IB(glob, t) ELSE glob

\* list(dict.fromkeys(list)): first occurrences, in order
RECURSIVE dict_fromkeys(_)
dict_fromkeys(list) ==
    IF list = <<>> THEN <<>>
    ELSE LET front == dict_fromkeys(SubSeq(list, 1, Len(list) - 1))
             last == list[Len(list)]
         IN  IF In(last, front) THEN front ELSE Append(front, last)

\* all_symbols of run_scanner
all_symbols(symbols) == dict_fromkeys(symbols \o MARKET_INDICATORS)

\* The thread's new state, the new _ib_instance and the new connected objects
\* take effect; an object left connected that no name refers to stays
\* connected for good.
Commit(t, glob, conn) ==
    /\ th' = t
    /\ ib_instance' = glob
    /\ connected' = conn \cap Refs(glob, t)
    /\ leaked' = (leaked \/ (conn \ Refs(glob, t)) # {})
    /\ UNCHANGED <<config_vars, registry, clock, ur, gl, log_vars,
                   unsubscribed_at_tick, cmds, wr, fn_vars>>

\* the sections of a report that talk to the broker, in order: run_scanner,
\* then for the strategy section only run_strategy
next_phase_strategy_only(phase, rep) ==
    IF phase = "scan" /\ rep.include_strategy THEN "strategy" ELSE "none"

\* the sections of a report that talk to the broker, in order: run_scanner,
\* then, under include_strategy, _extract_total_value (record_snapshot),
\* format_positions and run_strategy; "none" when the report is complete
next_phase(phase, rep) ==
    CASE phase = "scan" -> IF rep.include_strategy THEN "value" ELSE "none"
      [] phase = "value" -> "positions"
      [] phase = "positions" -> "strategy"
      [] OTHER -> "none"

\* the broker calls a section makes once connected: one per symbol of its
\* universe, or one call for the account summary or the positions
phase_items(phase, rep) ==
    CASE phase = "scan" -> Len(all_symbols(rep.symbols))
      [] phase = "strategy" -> Len(rep.strategy_symbols)
      [] OTHER -> 1

first_sub(phase) ==
    CASE phase = "value" -> "summary"
      [] phase = "positions" -> "positions"
      [] OTHER -> "fetch"

\* the thread enters a section: its first statement is connect()
enter_phase(t, phase) ==
    [t EXCEPT !.phase = phase, !.pc = "connect", !.ctx = "phase", !.k = 0,
              !.sub = "none", !.ib = 0,
              !.strategies = IF phase = "value" THEN @ + 1 ELSE @]

\* the section has returned: the next section, or the report is complete
leave_phase(t) ==
    LET phase == next_phase(t.phase, t.rep)
    IN  IF phase = "none"
        THEN [t EXCEPT !.phase = "none", !.pc = "save_send", !.ib = 0]
        ELSE enter_phase(t, phase)

\* generate_report(...) is called: run_scanner comes first
begin_report(t, rep) ==
    enter_phase([t EXCEPT !.rep = rep, !.scans = @ + 1], "scan")

\* the section's try block starts, or is over at once when it has nothing to do
enter_body(t) ==
    IF phase_items(t.phase, t.rep) = 0
    THEN [t EXCEPT !.pc = "disc1", !.ib = 0]
    ELSE [t EXCEPT !.pc = "call", !.k = 1, !.sub = first_sub(t.phase), !.ib = 0]

\* the loop of the section goes to its next symbol, or the finally block runs
next_symbol(t) ==
    IF t.k >= phase_items(t.phase, t.rep)
    THEN [t EXCEPT !.pc = "disc1", !.ib = 0]
    ELSE [t EXCEPT !.pc = "call", !.k = @ + 1, !.sub = first_sub(t.phase), !.ib = 0]

\* what a broker call comes to once the session question is settled
CallOutcomes == {"result", "no_result", "signal", "raises"}

\* The call the thread was making has returned (or raised) with the outcome.
\* run_scanner catches per symbol; _extract_total_value and format_positions
\* make one call; in run_strategy evaluate_symbol fetches, then asks for the
\* positions, and a BUY or SELL signal goes on to place_market_order, while
\* an exception leaves the loop for the finally block.
after_call(t, outcome) ==
    CASE t.phase = "scan" -> next_symbol(t)
      [] t.phase \in {"value", "positions"} -> [t EXCEPT !.pc = "disc1", !.ib = 0]
      [] OTHER ->
           IF t.sub = "order" THEN next_symbol(t)
           ELSE IF outcome = "raises" THEN [t EXCEPT !.pc = "disc1", !.ib = 0]
           ELSE IF t.sub = "fetch"
                THEN (IF outcome = "no_result" THEN next_symbol(t)
                      ELSE [t EXCEPT !.pc = "call", !.sub = "positions", !.ib = 0])
                ELSE (IF outcome = "signal"
                      THEN [t EXCEPT !.pc = "call", !.sub = "order", !.ib = 0]
                      ELSE next_symbol(t))

\* minutes at which the scheduler is watched thread by thread
BrokerTickMinutes == {120, 480}

\* sessions counted per cycle; the count stops there
MaxSessionsCounted == 2

\* The scheduler reaches minute m and hands the jobs of that minute to its
\* pool; a job still running is not started again (max_instances = 1).
BrokerTick ==
    \E m \in BrokerTickMinutes :
        /\ \A j \in Jobs : th[j].pc \in {"idle", "done"}
        /\ clock' = m
        /\ th' = [j \in Jobs |->
                    IF j = "user_reports" \/ global_job_fires(m)
                    THEN [IdleThread EXCEPT !.pc = "start"]
                    ELSE IdleThread]
        /\ UNCHANGED <<config_vars, registry, ur, gl, log_vars, unsubscribed_at_tick,
                       cmds, ib_instance, connected, leaked, wr, fn_vars>>

\* the dispatcher goes to its next user, or returns
thread_next_user(t) ==
    IF t.i >= Len(t.users) THEN [t EXCEPT !.pc = "done", !.phase = "none", !.ib = 0]
    ELSE [t EXCEPT !.pc = "pick", !.i = @ + 1, !.phase = "none", !.ib = 0]

\* _run_user_reports reads the registry
user_reports_start ==
    /\ th["user_reports"].pc = "start"
    /\ LET t == th["user_reports"]
           users == all_users(registry)
       IN  Commit([th EXCEPT !["user_reports"] =
                      IF users = <<>> THEN [t EXCEPT !.pc = "done"]
                      ELSE [t EXCEPT !.pc = "pick", !.users = users, !.i = 1]],
                  ib_instance, connected)

\* the head of the loop of _run_user_reports: the gates, then generate_report
user_reports_pick ==
    /\ th["user_reports"].pc = "pick"
    /\ LET t == th["user_reports"]
           user == t.users[t.i]
           current_time == strftime_HM(clock \div 60, clock % 60)
           minute_of_day == (clock \div 60) * 60 + (clock % 60)
       IN  Commit([th EXCEPT !["user_reports"] =
                      IF user.subscribed /\ should_run(user, minute_of_day, current_time)
                      THEN begin_report(t, user_report(user))
                      ELSE thread_next_user(t)],
                  ib_instance, connected)

\* _run_scheduled_report calls generate_report
scheduled_report_start ==
    /\ th["report_global"].pc = "start"
    /\ Commit([th EXCEPT !["report_global"] = begin_report(@, global_report(registry))],
              ib_instance, connected)

\* connect(): ib = get_connection()
connect_get_connection(j) ==
    /\ th[j].pc = "connect"
    /\ LET ib == get_connection(ib_instance, th)
       IN  Commit([th EXCEPT ![j] =
                      [@ EXCEPT !.pc = "connect2", !.ib = ib,
                                !.connect_calls = IF th[j].ctx = "phase" THEN @ + 1
                                                   ELSE @]],
                  ib, connected)

\* connect(): if not ib.isConnected(): ib.connect(...); return True, or False
\* when ib.connect raised.  A section that called it goes on to its try
\* block or returns at once; a broker call that called it goes on.
connect_isConnected_connect(j, ok, outcome) ==
    /\ th[j].pc = "connect2"
    /\ LET t == th[j]
           was == t.ib \in connected
           now == was \/ ok
           counted == [t EXCEPT !.sessions = IF ~was /\ ok /\ @ < MaxSessionsCounted
                                             THEN @ + 1 ELSE @]
           after == IF t.ctx = "phase"
                    THEN (IF now THEN enter_body([counted EXCEPT !.scope = TRUE])
                          ELSE leave_phase(counted))
                    ELSE after_call(counted,
                                    IF ~now /\ t.sub = "fetch" THEN "no_result" ELSE outcome)
       IN  Commit([th EXCEPT ![j] = after],
                  ib_instance,
                  IF now THEN connected \cup {t.ib} ELSE connected)

\* fetch_historical_bars, get_positions, get_account_summary and
\* place_market_order all begin: ib = get_connection(); if not
\* ib.isConnected(): connect().  Connected, the call is made on ib.
broker_call(j, outcome) ==
    /\ th[j].pc = "call"
    /\ LET ib == get_connection(ib_instance, th)
       IN  Commit([th EXCEPT ![j] =
                      IF ib \in connected THEN after_call(@, outcome)
                      ELSE [@ EXCEPT !.pc = "connect", !.ctx = "call", !.ib = 0]],
                  ib, connected)

\* disconnect(): if _ib_instance and _ib_instance.isConnected():
\* _ib_instance.disconnect().  A job that is inside its own connect() ...
\* disconnect() section at that moment loses its session.
disconnect_check(j) ==
    /\ th[j].pc = "disc1"
    /\ LET drops == ib_instance # 0 /\ ib_instance \in connected
       IN  Commit([k \in Jobs |->
                      IF k = j THEN [th[k] EXCEPT !.pc = "disc2", !.scope = FALSE]
                      ELSE [th[k] EXCEPT !.dropped = @ \/ (drops /\ th[k].scope)]],
                  ib_instance,
                  connected \ {ib_instance})

\* disconnect(): _ib_instance = None
disconnect_clear(j) ==
    /\ th[j].pc = "disc2"
    /\ LET replaces == ib_instance # 0 /\ ib_instance \in connected
       IN  Commit([k \in Jobs |->
                      IF k = j THEN leave_phase(th[k])
                      ELSE [th[k] EXCEPT !.dropped = @ \/ (replaces /\ th[k].scope)]],
                  0, connected)

\* the report is saved and sent (or that raises, and the job logs it)
save_and_send(j) ==
    /\ th[j].pc = "save_send"
    /\ Commit([th EXCEPT ![j] =
                  IF j = "user_reports" THEN thread_next_user(@)
                  ELSE [@ EXCEPT !.pc = "done", !.ib = 0]],
              ib_instance, connected)

\* user 1 with its own symbols and the default times, user 12 with the same
\* symbols every 60 minutes
ArgAapl == <<"a", "a", "p", "l">>

BrokerRegistry ==
    _handle_setfrequency(
        _handle_setsymbols(_handle_setsymbols(<<>>, 1, ArgAapl), 12, ArgAapl),
        12, Arg60)

BrokerConfigs == {[chat |-> <<"1">>, owner |-> <<"1">>],
                  [chat |-> <<"1">>, owner |-> <<"1", "2">>]}

InitBroker ==
    /\ \E c \in BrokerConfigs :
          /\ TELEGRAM_CHAT_ID = c.chat
          /\ OWNER_TELEGRAM_CHAT_ID = c.owner
    /\ registry = BrokerRegistry
    /\ clock = 0
    /\ ur = IdleJob
    /\ gl = "idle"
    /\ due = <<>>
    /\ generated = <<>>
    /\ sent = <<>>
    /\ failed = <<>>
    /\ unsubscribed_at_tick = {}
    /\ cmds = 0
    /\ BrokerIdle

NextBroker ==
    \/ BrokerTick
    \/ user_reports_start
    \/ user_reports_pick
    \/ scheduled_report_start
    \/ \E j \in Jobs : connect_get_connection(j)
    \/ \E j \in Jobs, ok \in BOOLEAN, outcome \in CallOutcomes :
          connect_isConnected_connect(j, ok, outcome)
    \/ \E j \in Jobs, outcome \in CallOutcomes : broker_call(j, outcome)
    \/ \E j \in Jobs : disconnect_check(j)
    \/ \E j \in Jobs : disconnect_clear(j)
    \/ \E j \in Jobs : save_and_send(j)

SpecBroker == InitBroker /\ [][NextBroker]_vars

\* ------------------------------------------- upsert_user, step by step
\*
\* upsert_user loads the document, assigns one key and writes the document
\* back.  Each process that handles commands does this on its own; a step is
\* one read or one write of USERS_FILE.

\* upsert_user calls in one behaviour
MaxUpserts == 3

\* the changes the handlers make to the user they then upsert
UpsertChanges == {"subscribe", "unsubscribe", "setfrequency"}

\* the user a handler hands to upsert_user: get_user(chat_id) or a new user,
\* with the field of the command set
handler_user(data, chat_id, change) ==
    LET after == CASE change = "subscribe" -> _handle_subscribe(data, chat_id)
                   [] change = "unsubscribe" -> _handle_unsubscribe(data, chat_id)
                   [] OTHER -> _handle_setfrequency(data, chat_id, Arg60)
    IN  get_user(after, chat_id)[1]

\* the write that keeps the entries the file has and the document lacks
_save_raw_merges(data, file) ==
    LET missing(e) == KeyIndex(data, e.key) = 0
    IN  data \o SelectSeq(file, missing)

\* _save_raw(data): USERS_FILE.write_text(json.dumps(data)), the whole
\* document in place of what the file held
_save_raw(data, file) == data

UpsertUnchanged ==
    UNCHANGED <<config_vars, clock, ur, gl, log_vars, unsubscribed_at_tick, broker_vars,
                fn_vars>>

\* a handler reads the user of the chat and sets the field of its command
handler_get_user(w, chat_id, change) ==
    /\ wr[w].pc \in {"idle", "saved"}
    /\ cmds < MaxUpserts
    /\ cmds' = cmds + 1
    /\ wr' = [wr EXCEPT ![w] = [pc |-> "call",
                                user |-> handler_user(registry, chat_id, change),
                                data |-> <<>>]]
    /\ UNCHANGED registry
    /\ UpsertUnchanged

\* upsert_user: data = _load_raw()
upsert_load(w) ==
    /\ wr[w].pc = "call"
    /\ wr' = [wr EXCEPT ![w] = [@ EXCEPT !.pc = "loaded", !.data = registry]]
    /\ UNCHANGED <<registry, cmds>>
    /\ UpsertUnchanged

\* upsert_user: data[str(user.chat_id)] = asdict(user); _save_raw(data)
upsert_save(w) ==
    /\ wr[w].pc = "loaded"
    /\ registry' = _save_raw(upsert_user(wr[w].data, wr[w].user), registry)
    /\ wr' = [wr EXCEPT ![w] = [@ EXCEPT !.pc = "saved"]]
    /\ UNCHANGED cmds
    /\ UpsertUnchanged

InitUpsert == Init

NextUpsert ==
    \/ \E w \in Writers, c \in ChatIds, change \in UpsertChanges :
          handler_get_user(w, c, change)
    \/ \E w \in Writers : upsert_load(w)
    \/ \E w \in Writers : upsert_save(w)

SpecUpsert == InitUpsert /\ [][NextUpsert]_vars

\* ------------------------------------------------- the pure functions
\*
\* Each behaviour looks at one call: the arguments are chosen at the start,
\* and the step of the function called sets what it returns.

\* ---- floats
\*
\* A float is <<>> for NaN or <<q>> for the number q.n / q.d with q.d > 0;
\* the numbers of the model are exact fractions of small integers.

Q(n, d) == [n |-> n, d |-> d]

\* float(n) for an integer n
float(n) == Some(Q(n, 1))

\* float comparisons: False whenever an operand is NaN
float_gt(a, b) == a # None /\ b # None /\ a[1].n * b[1].d > b[1].n * a[1].d

float_lt(a, b) == a # None /\ b # None /\ a[1].n * b[1].d < b[1].n * a[1].d

float_ge(a, b) == a # None /\ b # None /\ a[1].n * b[1].d >= b[1].n * a[1].d

float_le(a, b) == a # None /\ b # None /\ a[1].n * b[1].d <= b[1].n * a[1].d

float_eq(a, b) == a # None /\ b # None /\ a[1].n * b[1].d = b[1].n * a[1].d

\* float arithmetic: NaN when an operand is NaN
float_add(a, b) ==
    IF a = None \/ b = None THEN None
    ELSE Some(Q(a[1].n * b[1].d + b[1].n * a[1].d, a[1].d * b[1].d))

float_sub(a, b) ==
    IF a = None \/ b = None THEN None
    ELSE Some(Q(a[1].n * b[1].d - b[1].n * a[1].d, a[1].d * b[1].d))

\* a / b for b > 0 (the divisors of the model are positive or NaN)
float_div(a, b) ==
    IF a = None \/ b = None THEN None
    ELSE Some(Q(a[1].n * b[1].d, a[1].d * b[1].n))

\* the sum of a list of whole floats, NaN when one of them is NaN
RECURSIVE float_sum(_)
float_sum(values) ==
    IF values = <<>> THEN float(0)
    ELSE IF Len(values) = 1 THEN values[1]
    ELSE LET half == Len(values) \div 2
         IN  float_add(float_sum(SubSeq(values, 1, half)),
                       float_sum(SubSeq(values, half + 1, Len(values))))

\* series.rolling(window).mean().iloc[-1]: NaN until the window is full
rolling_mean_last(values, window) ==
    IF Len(values) < window THEN None
    ELSE float_div(float_sum(SubSeq(values, Len(values) - window + 1, Len(values))),
                   float(window))

\* ---- sma_strategy.detect_crossover

\* rows of the frame handed to detect_crossover
MaxRows == 4

\* an SMA value, NaN included
SmaValues == {None, float(9), float(10), float(11)}

SlowValues == {None, float(10), float(11)}

\* a row of the frame: its sma_fast and sma_slow columns
Rows == [sma_fast : SmaValues, sma_slow : SlowValues]

Frames == UNION {[1..n -> Rows] : n \in 0..MaxRows}

\* pd.isna
isna(x) == x = None

\* the crossing read from the last two rows
detect_crossover_latest(df) ==
    IF Len(df) < 3 THEN "HOLD"
    ELSE LET prev == df[Len(df) - 1]
             curr == df[Len(df)]
         IN  IF isna(prev.sma_fast) \/ isna(prev.sma_slow)
                \/ isna(curr.sma_fast) \/ isna(curr.sma_slow)
             THEN "HOLD"
             ELSE IF float_le(prev.sma_fast, prev.sma_slow)
                     /\ float_gt(curr.sma_fast, curr.sma_slow) THEN "BUY"
             ELSE IF float_ge(prev.sma_fast, prev.sma_slow)
                     /\ float_lt(curr.sma_fast, curr.sma_slow) THEN "SELL"
             ELSE "HOLD"

\* the crossing that needs the fast SMA strictly on the other side before
detect_crossover_strict(df) ==
    IF Len(df) < 3 THEN "HOLD"
    ELSE LET prev == df[Len(df) - 2]
             curr == df[Len(df) - 1]
         IN  IF isna(prev.sma_fast) \/ isna(prev.sma_slow)
                \/ isna(curr.sma_fast) \/ isna(curr.sma_slow)
             THEN "HOLD"
             ELSE IF float_lt(prev.sma_fast, prev.sma_slow)
                     /\ float_gt(curr.sma_fast, curr.sma_slow) THEN "BUY"
             ELSE IF float_gt(prev.sma_fast, prev.sma_slow)
                     /\ float_lt(curr.sma_fast, curr.sma_slow) THEN "SELL"
             ELSE "HOLD"

\* detect_crossover(df): prev = df.iloc[-3], curr = df.iloc[-2]
detect_crossover(df) ==
    IF Len(df) < 3 THEN "HOLD"
    ELSE LET prev == df[Len(df) - 2]
             curr == df[Len(df) - 1]
             prev_fast == prev.sma_fast
             prev_slow == prev.sma_slow
             curr_fast == curr.sma_fast
             curr_slow == curr.sma_slow
         IN  IF isna(prev_fast) \/ isna(prev_slow) \/ isna(curr_fast) \/ isna(curr_slow)
             THEN "HOLD"
             ELSE IF float_le(prev_fast, prev_slow) /\ float_gt(curr_fast, curr_slow)
             THEN "BUY"
             ELSE IF float_ge(prev_fast, prev_slow) /\ float_lt(curr_fast, curr_slow)
             THEN "SELL"
             ELSE "HOLD"

CrossoverCalls == {[fn |-> "detect_crossover", df |-> df] : df \in Frames}

FnUnchanged ==
    UNCHANGED <<config_vars, registry, clock, ur, gl, log_vars, unsubscribed_at_tick,
                cmds, broker_vars, wr, call>>

detect_crossover_returns ==
    /\ call.fn = "detect_crossover"
    /\ ret = NotReturned
    /\ ret' = Some(detect_crossover(call.df))
    /\ FnUnchanged

\* everything but the call is as the program starts
FnRest ==
    /\ TELEGRAM_CHAT_ID = <<>>
    /\ OWNER_TELEGRAM_CHAT_ID = <<>>
    /\ registry = <<>>
    /\ clock = 0
    /\ ur = IdleJob
    /\ gl = "idle"
    /\ due = <<>>
    /\ generated = <<>>
    /\ sent = <<>>
    /\ failed = <<>>
    /\ unsubscribed_at_tick = {}
    /\ cmds = 0
    /\ wr = [w \in Writers |-> IdleWriter]
    /\ th = [j \in Jobs |-> IdleThread]
    /\ ib_instance = 0
    /\ connected = {}
    /\ leaked = FALSE
    /\ ret = NotReturned

InitCrossover == call \in CrossoverCalls /\ FnRest

NextCrossover == detect_crossover_returns

SpecCrossover == InitCrossover /\ [][NextCrossover]_vars

\* ---- market_scanner.get_trend

\* the RSI bounds counted as inside the band
get_trend_inclusive(sma_20, sma_50, rsi) ==
    IF float_gt(sma_20, sma_50) /\ float_le(rsi, float(70)) THEN "bullish"
    ELSE IF float_lt(sma_20, sma_50) /\ float_ge(rsi, float(30)) THEN "bearish"
    ELSE "neutral"

\* get_trend(sma_20, sma_50, rsi)
get_trend(sma_20, sma_50, rsi) ==
    IF float_gt(sma_20, sma_50) /\ float_lt(rsi, float(70)) THEN "bullish"
    ELSE IF float_lt(sma_20, sma_50) /\ float_gt(rsi, float(30)) THEN "bearish"
    ELSE "neutral"

RsiValues == {None} \cup {float(v) : v \in {0, 29, 30, 31, 50, 69, 70, 71, 100}}

TrendCalls ==
    {[fn |-> "get_trend", sma_20 |-> f, sma_50 |-> sl, rsi |-> r] :
        f \in SmaValues, sl \in SmaValues, r \in RsiValues}

get_trend_returns ==
    /\ call.fn = "get_trend"
    /\ ret = NotReturned
    /\ ret' = Some(get_trend(call.sma_20, call.sma_50, call.rsi))
    /\ FnUnchanged

InitTrend == call \in TrendCalls /\ FnRest

NextTrend == get_trend_returns

SpecTrend == InitTrend /\ [][NextTrend]_vars

\* ---- market_scanner.compute_rsi

\* period: int = 14
RSI_PERIOD == 14

\* series.diff(): NaN in the first place
diff(series) ==
    [i \in 1..Len(series) |-> IF i = 1 THEN None ELSE float(series[i] - series[i - 1])]

\* delta.where(delta > 0, 0.0)
gain_of(delta) ==
    [i \in 1..Len(delta) |-> IF float_gt(delta[i], float(0)) THEN delta[i] ELSE float(0)]

\* (-delta).where(delta < 0, 0.0)
loss_of(delta) ==
    [i \in 1..Len(delta) |->
        IF float_lt(delta[i], float(0)) THEN float_sub(float(0), delta[i]) ELSE float(0)]

\* x.replace(0, np.nan)
replace_0_nan(x) == IF float_eq(x, float(0)) THEN None ELSE x

\* compute_rsi(series, period)
compute_rsi(series, period) ==
    LET delta == diff(series)
        gain == gain_of(delta)
        loss == loss_of(delta)
        avg_gain == rolling_mean_last(gain, period)
        avg_loss == rolling_mean_last(loss, period)
        rs == float_div(avg_gain, replace_0_nan(avg_loss))
        rsi == float_sub(float(100), float_div(float(100), float_add(float(1), rs)))
    IN  IF rsi # None THEN rsi ELSE float(50)

\* closes handed to compute_rsi
MaxCloses == 16

\* a series of n closes: flat, rising or falling by one a bar, alternating,
\* or rising with one fall / flat with one rise at bar p
Closes(n, kind, p) ==
    [i \in 1..n |->
        CASE kind = "flat" -> 100
          [] kind = "rising" -> 100 + i
          [] kind = "falling" -> 100 - i
          [] kind = "zigzag" -> 100 + (i % 2)
          [] kind = "rise_with_fall" -> IF i < p THEN 100 + i ELSE 97 + i
          [] OTHER -> IF i < p THEN 100 ELSE 101]

CloseKinds == {"flat", "rising", "falling", "zigzag", "rise_with_fall", "flat_with_rise"}

RsiCalls ==
    {[fn |-> "compute_rsi", series |-> Closes(n, kind, p)] :
        n \in 1..MaxCloses, kind \in CloseKinds, p \in 2..MaxCloses}

compute_rsi_returns ==
    /\ call.fn = "compute_rsi"
    /\ ret = NotReturned
    /\ ret' = Some(compute_rsi(call.series, RSI_PERIOD))
    /\ FnUnchanged

InitRsi == call \in RsiCalls /\ FnRest

NextRsi == compute_rsi_returns

SpecRsi == InitRsi /\ [][NextRsi]_vars

\* ---- market_scanner.scan_symbol

\* len(df) < 50
MIN_BARS == 50

\* bars a fetch returns
MaxBars == 52

\* the bars of a fetch: closes of one of the kinds, high and low one above
\* and one below the close, a volume
MakeBars(n, kind) ==
    LET close == Closes(n, kind, 3)
    IN  [i \in 1..n |-> [close |-> close[i], high |-> close[i] + 1,
                         low |-> close[i] - 1, volume |-> 1000 + 10 * i]]

\* what fetch_historical_bars returns: None, or a list of bars
FetchResults ==
    {None} \cup {Some(MakeBars(n, kind)) : n \in 0..MaxBars, kind \in CloseKinds}

\* a column of the frame, as floats
column_close(df) == [i \in 1..Len(df) |-> float(df[i].close)]

column_volume(df) == [i \in 1..Len(df) |-> float(df[i].volume)]

\* a value of an exponentially weighted mean: the model does not compute it,
\* it names the column and the series it is computed from
ewm_value(name, series) == Some([ewm |-> name, series |-> series])

\* compute_macd(close): the last MACD line, signal and histogram
compute_macd(series) ==
    [macd_line |-> ewm_value("macd_line", series),
     macd_signal |-> ewm_value("macd_signal", series),
     macd_histogram |-> ewm_value("macd_hist", series)]

abs(x) == IF x < 0 THEN 0 - x ELSE x

max2(x, y) == IF x >= y THEN x ELSE y

\* the true range of row i: max of high - low, |high - close.shift(1)| and
\* |low - close.shift(1)|, the last two NaN (and skipped) in the first row
true_range(df, i) ==
    IF i = 1 THEN df[i].high - df[i].low
    ELSE max2(df[i].high - df[i].low,
              max2(abs(df[i].high - df[i - 1].close), abs(df[i].low - df[i - 1].close)))

\* period: int = 14
ATR_PERIOD == 14

\* compute_atr(df, period)
compute_atr(df, period) ==
    LET tr == [i \in 1..Len(df) |-> float(true_range(df, i))]
        atr == rolling_mean_last(tr, period)
    IN  IF atr # None THEN atr ELSE float(0)

\* the snapshot with NaN in place of the numbers
error_snapshot_nan(symbol, error) ==
    [symbol |-> symbol, price |-> None, sma_20 |-> None, sma_50 |-> None,
     rsi_14 |-> None, macd_line |-> None, macd_signal |-> None,
     macd_histogram |-> None, volume |-> 0, volume_sma_20 |-> None,
     atr_14 |-> None, trend |-> "neutral", error |-> Some(error)]

\* StockIndicators(symbol=symbol, price=0, ..., trend="neutral", error=error)
error_snapshot(symbol, error) ==
    [symbol |-> symbol, price |-> float(0), sma_20 |-> float(0), sma_50 |-> float(0),
     rsi_14 |-> float(50), macd_line |-> float(0), macd_signal |-> float(0),
     macd_histogram |-> float(0), volume |-> 0, volume_sma_20 |-> float(0),
     atr_14 |-> float(0), trend |-> "neutral", error |-> Some(error)]

\* scan_symbol(symbol), bars being what fetch_historical_bars returned
scan_symbol(symbol, bars) ==
    IF bars = None \/ bars[1] = <<>>
    THEN error_snapshot(symbol, "Failed to fetch data")
    ELSE LET df == bars[1]
         IN  IF Len(df) < MIN_BARS
             THEN error_snapshot(symbol, "Insufficient data")
             ELSE LET close == column_close(df)
                      latest == df[Len(df)]
                      price == float(latest.close)
                      volume == latest.volume
                      sma_20 == IF Len(df) >= 20 THEN rolling_mean_last(close, 20)
                                ELSE price
                      sma_50 == IF Len(df) >= 50 THEN rolling_mean_last(close, 50)
                                ELSE price
                      rsi == compute_rsi([i \in 1..Len(df) |-> df[i].close], RSI_PERIOD)
                      macd == compute_macd(close)
                      atr == compute_atr(df, ATR_PERIOD)
                      vol_sma_20 == IF Len(df) >= 20
                                    THEN rolling_mean_last(column_volume(df), 20)
                                    ELSE float(volume)
                  IN  [symbol |-> symbol, price |-> price, sma_20 |-> sma_20,
                       sma_50 |-> sma_50, rsi_14 |-> rsi,
                       macd_line |-> macd.macd_line, macd_signal |-> macd.macd_signal,
                       macd_histogram |-> macd.macd_histogram, volume |-> volume,
                       volume_sma_20 |-> vol_sma_20, atr_14 |-> atr,
                       trend |-> get_trend(sma_20, sma_50, rsi), error |-> None]

ScanCalls ==
    {[fn |-> "scan_symbol", symbol |-> symbol, bars |-> bars] :
        symbol \in {AAPL, SPY}, bars \in FetchResults}

scan_symbol_returns ==
    /\ call.fn = "scan_symbol"
    /\ ret = NotReturned
    /\ ret' = Some(scan_symbol(call.symbol, call.bars))
    /\ FnUnchanged

InitScan == call \in ScanCalls /\ FnRest

NextScan == scan_symbol_returns

SpecScan == InitScan /\ [][NextScan]_vars

\* ---- sma_strategy.compute_sma

\* rows of the frame handed to compute_sma
MaxSmaRows == 6

\* df["close"].rolling(window).mean(): row i is NaN until it has window closes
rolling_mean(values, window) ==
    [i \in 1..Len(values) |-> rolling_mean_last(SubSeq(values, 1, i), window)]

\* the SMA columns with the mean of the closes so far while the window is
\* not full
compute_sma_partial_windows(df, fast, slow) ==
    LET close == column_close(df)
        mean_of_last(i, window) ==
            LET k == IF i < window THEN i ELSE window
            IN  float_div(float_sum(SubSeq(close, i - k + 1, i)), float(k))
    IN  [i \in 1..Len(df) |->
            [close |-> df[i].close, sma_fast |-> mean_of_last(i, fast),
             sma_slow |-> mean_of_last(i, slow)]]

\* compute_sma(df, fast, slow): the frame with the columns sma_fast and sma_slow
compute_sma(df, fast, slow) ==
    LET close == column_close(df)
        sma_fast == rolling_mean(close, fast)
        sma_slow == rolling_mean(close, slow)
    IN  [i \in 1..Len(df) |->
            [close |-> df[i].close, sma_fast |-> sma_fast[i], sma_slow |-> sma_slow[i]]]

SmaCalls ==
    {[fn |-> "compute_sma", df |-> MakeBars(n, kind), fast |-> fast, slow |-> slow] :
        n \in 1..MaxSmaRows, kind \in CloseKinds, fast \in {2, 3}, slow \in {3, 5}}

compute_sma_returns ==
    /\ call.fn = "compute_sma"
    /\ ret = NotReturned
    /\ ret' = Some(compute_sma(call.df, call.fast, call.slow))
    /\ FnUnchanged

InitSma == call \in SmaCalls /\ FnRest

NextSma == compute_sma_returns

SpecSma == InitSma /\ [][NextSma]_vars

\* ---- market_scanner.run_scanner and report_generator.format_market_report
\*
\* A text is the sequence of its pieces: the characters of a symbol, and the
\* literals and messages as single pieces.  The digits of a formatted number
\* are not modelled; its piece names the field and the format.

\* str(e) of the exception a scan raises
ScanExceptionMessage == "cannot convert float NaN to integer"

\* what scanning one symbol meets: the bars of the fetch, or an exception
\* raised past the fetch (int(latest["volume"]) on a bar without volume)
ScanOutcomes ==
    {[raises |-> FALSE, bars |-> None],
     [raises |-> FALSE, bars |-> Some(MakeBars(49, "rising"))],
     [raises |-> FALSE, bars |-> Some(MakeBars(50, "rising"))],
     [raises |-> TRUE, bars |-> None]}

\* outcomes drawn per run; symbol k meets outcome ((k - 1) % ScanPattern) + 1
ScanPattern == 3

\* the outcome symbol k of the loop meets
outcome_of(outcomes, k) == outcomes[((k - 1) % Len(outcomes)) + 1]

\* f"{symbol}: {message}"
error_entry(symbol, message) == symbol \o <<": ", message>>

\* MarketSnapshot(timestamp=datetime.now()); scanned lists the symbols
\* scan_symbol was called with
new_MarketSnapshot ==
    [stocks |-> <<>>, market_summary |-> <<>>, errors |-> <<>>, scanned |-> <<>>]

\* the loop without the inner try: it ends at the first scan that raises
RECURSIVE run_scanner_loop_unguarded(_, _, _)
run_scanner_loop_unguarded(symbols, outcomes, k) ==
    IF k = 0 THEN new_MarketSnapshot
    ELSE LET snapshot == run_scanner_loop_unguarded(symbols, outcomes, k - 1)
             symbol == symbols[k]
             o == outcome_of(outcomes, k)
             indicators == scan_symbol(symbol, o.bars)
         IN  IF Len(snapshot.scanned) < k - 1 THEN snapshot
             ELSE IF o.raises
             THEN [snapshot EXCEPT
                     !.errors = Append(@, error_entry(symbol, ScanExceptionMessage))]
             ELSE [snapshot EXCEPT
                     !.stocks = Append(@, indicators),
                     !.errors = IF indicators.error # None
                                THEN Append(@, error_entry(symbol, indicators.error[1]))
                                ELSE @,
                     !.scanned = Append(@, symbol)]

\* the body of "for symbol in all_symbols" for the first k symbols
RECURSIVE run_scanner_loop(_, _, _)
run_scanner_loop(symbols, outcomes, k) ==
    IF k = 0 THEN new_MarketSnapshot
    ELSE LET snapshot == run_scanner_loop(symbols, outcomes, k - 1)
             symbol == symbols[k]
             o == outcome_of(outcomes, k)
             indicators == scan_symbol(symbol, o.bars)
         IN  IF o.raises
             THEN [snapshot EXCEPT
                     !.errors = Append(@, error_entry(symbol, ScanExceptionMessage)),
                     !.scanned = Append(@, symbol)]
             ELSE [snapshot EXCEPT
                     !.stocks = Append(@, indicators),
                     !.errors = IF indicators.error # None
                                THEN Append(@, error_entry(symbol, indicators.error[1]))
                                ELSE @,
                     !.scanned = Append(@, symbol)]

\* next((s for s in snapshot.stocks if s.symbol == symbol), None)
first_stock(stocks, symbol) ==
    LET found == SelectSeq(stocks, LAMBDA s : s.symbol = symbol)
    IN  IF found = <<>> THEN None ELSE Some(found[1])

\* snapshot.market_summary after the loop: SPY, then QQQ, when scanned
market_summary(stocks) ==
    LET spy == first_stock(stocks, SPY)
        qqq == first_stock(stocks, QQQ)
    IN  (IF spy # None
         THEN <<[key |-> "SPY_price", value |-> spy[1].price],
                [key |-> "SPY_trend", value |-> spy[1].trend]>>
         ELSE <<>>)
        \o (IF qqq # None
            THEN <<[key |-> "QQQ_price", value |-> qqq[1].price],
                   [key |-> "QQQ_trend", value |-> qqq[1].trend]>>
            ELSE <<>>)

\* the scan that raises where connect() returned False
run_scanner_raises_unconnected(symbols, connect_ok, outcomes) ==
    LET base_symbols == IF symbols # None THEN symbols[1] ELSE SCAN_SYMBOLS
        universe == all_symbols(base_symbols)
        snapshot == run_scanner_loop(universe, outcomes, Len(universe))
    IN  [raised |-> ~connect_ok, disconnected |-> connect_ok,
         snapshot |-> IF connect_ok
                      THEN [snapshot EXCEPT
                              !.market_summary = market_summary(snapshot.stocks)]
                      ELSE new_MarketSnapshot]

\* run_scanner(symbols): connect_ok is what connect() returns; raised tells
\* whether the call ended in an exception, disconnected whether the finally
\* block ran
run_scanner(symbols, connect_ok, outcomes) ==
    LET base_symbols == IF symbols # None THEN symbols[1] ELSE SCAN_SYMBOLS
        universe == all_symbols(base_symbols)
        snapshot == run_scanner_loop(universe, outcomes, Len(universe))
    IN  IF ~connect_ok
        THEN [raised |-> FALSE, disconnected |-> FALSE,
              snapshot |-> [new_MarketSnapshot EXCEPT
                              !.errors = <<<<"Failed to connect to IBKR">>>>]]
        ELSE [raised |-> FALSE, disconnected |-> TRUE,
              snapshot |-> [snapshot EXCEPT
                              !.market_summary = market_summary(snapshot.stocks)]]

\* the two lines of a stock in the main display
indicator_lines(stock) ==
    LET emoji == IF stock.trend = "bullish" THEN "green"
                 ELSE IF stock.trend = "bearish" THEN "red" ELSE "white"
    IN  <<<<emoji, " ">> \o stock.symbol
            \o <<": $", "{price:.2f}", " | SMA20: $", "{sma_20:.2f}", " | SMA50: $",
                 "{sma_50:.2f}", " | RSI: ", "{rsi_14:.1f}", " | Trend: ", stock.trend>>,
          <<"   MACD: ", "{macd_histogram:+.4f}", " | ATR: $", "{atr_14:.2f}",
            " | Vol: ", "{volume:,}">>>>

\* the main display that shows the stocks with an error as well
main_display_all(stocks) ==
    IF stocks = <<>> THEN <<>>
    ELSE indicator_lines(stocks[1]) \o
         [k \in 1..(2 * (Len(stocks) - 1)) |->
             indicator_lines(stocks[((k + 1) \div 2) + 1])[2 - (k % 2)]]

\* the loop over snapshot.stocks of format_market_report
RECURSIVE main_display(_)
main_display(stocks) ==
    IF stocks = <<>> THEN <<>>
    ELSE LET stock == stocks[Len(stocks)]
             front == main_display(SubSeq(stocks, 1, Len(stocks) - 1))
         IN  IF stock.error # None THEN front ELSE front \o indicator_lines(stock)

\* the lines of the summary section, or none
summary_section(summary) ==
    IF summary = <<>> THEN <<>>
    ELSE <<<<>>, <<"=== MARKET SUMMARY ===">>>>
         \o [k \in 1..Len(summary) |-> <<"  ", summary[k].key, ": ", "{value}">>]

\* the lines of the errors section, or none
errors_section(errors) ==
    IF errors = <<>> THEN <<>>
    ELSE <<<<>>, <<"Errors:">>>> \o [k \in 1..Len(errors) |-> <<"  - ">> \o errors[k]]

\* format_market_report(snapshot, session): the lines it joins
format_market_report(snapshot, session) ==
    <<<<"MARKET REPORT - ", session>>, <<"Generated: ", "{timestamp}">>, <<>>,
      <<"=== MARKET INDICATORS ===">>>>
    \o main_display(snapshot.stocks)
    \o summary_section(snapshot.market_summary)
    \o errors_section(snapshot.errors)

\* the scan universes handed to run_scanner
ScanUniverses == {None, Some(<<>>), Some(<<AAPL>>), Some(<<AAPL, SPY>>), Some(<<MU, AAPL, MU>>)}

ScannerCalls ==
    {[fn |-> "run_scanner", symbols |-> symbols, connect_ok |-> ok, outcomes |-> outcomes] :
        symbols \in ScanUniverses, ok \in BOOLEAN,
        outcomes \in [1..ScanPattern -> ScanOutcomes]}

\* generate_report's market part: run_scanner, then format_market_report
run_scanner_returns ==
    /\ call.fn = "run_scanner"
    /\ ret = NotReturned
    /\ LET result == run_scanner(call.symbols, call.connect_ok, call.outcomes)
       IN  ret' = Some([raised |-> result.raised,
                        disconnected |-> result.disconnected,
                        snapshot |-> result.snapshot,
                        lines |-> format_market_report(result.snapshot, "pre-market")])
    /\ FnUnchanged

InitScanner == call \in ScannerCalls /\ FnRest

NextScanner == run_scanner_returns

SpecScanner == InitScanner /\ [][NextScanner]_vars

\* ---- sma_strategy.run_strategy and the strategy lines of the report

\* SHARES_PER_TRADE = int(os.getenv("SHARES_PER_TRADE", "10"))
SHARES_PER_TRADE == 10

\* what evaluate_symbol comes to for one symbol: None (no bars, or fewer than
\* the slow period), a result with its signal and the position the account
\* holds (none, long or short), or an exception (ib.positions() in
\* get_positions is outside every try)
EvalOutcomes ==
    {[kind |-> "none", signal |-> "HOLD", position |-> 0],
     [kind |-> "result", signal |-> "HOLD", position |-> 0],
     [kind |-> "result", signal |-> "BUY", position |-> 0],
     [kind |-> "result", signal |-> "SELL", position |-> 5],
     [kind |-> "result", signal |-> "SELL", position |-> 0],
     [kind |-> "result", signal |-> "SELL", position |-> -3],
     [kind |-> "result", signal |-> "BUY", position |-> 5],
     [kind |-> "result", signal |-> "HOLD", position |-> 5],
     [kind |-> "raises", signal |-> "HOLD", position |-> 0]}

\* outcomes drawn per run; symbol k meets outcome ((k - 1) % StrategyPattern) + 1
StrategyPattern == 2

\* the StrategyResult of evaluate_symbol; the price and the two SMAs are the
\* latest row's and are not modelled
evaluate_symbol(symbol, o) ==
    [symbol |-> symbol, signal |-> o.signal, current_position |-> o.position,
     message |-> CASE o.signal = "BUY" -> "Golden cross"
                   [] o.signal = "SELL" -> "Death cross"
                   [] OTHER -> "No crossover signal"]

\* the orders of a run that sells on every SELL signal, held or not
orders_for_any_sell(result) ==
    IF result.signal = "BUY"
    THEN <<[symbol |-> result.symbol, action |-> "BUY", quantity |-> SHARES_PER_TRADE]>>
    ELSE IF result.signal = "SELL"
    THEN <<[symbol |-> result.symbol, action |-> "SELL", quantity |-> SHARES_PER_TRADE]>>
    ELSE <<>>

\* the place_market_order call run_strategy makes for a result, if any
orders_for(result) ==
    IF result.signal = "BUY"
    THEN <<[symbol |-> result.symbol, action |-> "BUY", quantity |-> SHARES_PER_TRADE]>>
    ELSE IF result.signal = "SELL" /\ result.current_position > 0
    THEN <<[symbol |-> result.symbol, action |-> "SELL",
            quantity |-> result.current_position]>>
    ELSE <<>>

\* "for symbol in trade_symbols" for the first k symbols: an exception of
\* evaluate_symbol leaves the loop
RECURSIVE run_strategy_loop(_, _, _)
run_strategy_loop(symbols, outcomes, k) ==
    IF k = 0 THEN [raised |-> FALSE, results |-> <<>>, evaluated |-> <<>>, orders |-> <<>>]
    ELSE LET before == run_strategy_loop(symbols, outcomes, k - 1)
             symbol == symbols[k]
             o == outcome_of(outcomes, k)
             result == evaluate_symbol(symbol, o)
         IN  IF before.raised THEN before
             ELSE IF o.kind = "raises"
             THEN [before EXCEPT !.raised = TRUE, !.evaluated = Append(@, symbol)]
             ELSE IF o.kind = "none"
             THEN [before EXCEPT !.evaluated = Append(@, symbol)]
             ELSE [before EXCEPT !.evaluated = Append(@, symbol),
                                 !.results = Append(@, result),
                                 !.orders = @ \o orders_for(result)]

\* run_strategy(symbols): raised tells whether the call ended in an exception
\* (the results are then not returned), disconnected whether the finally
\* block ran
run_strategy(symbols, connect_ok, outcomes) ==
    LET trade_symbols == IF symbols # None THEN symbols[1] ELSE TRADE_SYMBOLS
        loop == run_strategy_loop(trade_symbols, outcomes, Len(trade_symbols))
    IN  IF ~connect_ok
        THEN [raised |-> FALSE, disconnected |-> FALSE, results |-> <<>>,
              evaluated |-> <<>>, orders |-> <<>>]
        ELSE [raised |-> loop.raised, disconnected |-> TRUE,
              results |-> IF loop.raised THEN <<>> ELSE loop.results,
              evaluated |-> loop.evaluated, orders |-> loop.orders]

\* the two lines of a result
strategy_lines(r) ==
    <<r.symbol \o <<": ", r.signal, " | Price: $", "{price:.2f}", " | SMA_fast: $",
                   "{fast_sma:.2f}", " | SMA_slow: $", "{slow_sma:.2f}", " | Pos: ",
                   "{current_position}">>,
      <<"   ", r.message>>>>

\* format_strategy_report(results): the lines it joins
format_strategy_report(results) ==
    IF results = <<>> THEN <<<<"No strategy results.">>>>
    ELSE <<<<"=== SMA CROSSOVER STRATEGY ===">>>>
         \o [k \in 1..(2 * Len(results)) |-> strategy_lines(results[(k + 1) \div 2])[2 - (k % 2)]]

\* the last try block of build_strategy_section
strategy_report_lines(strategy) ==
    IF strategy.raised
    THEN <<<<"=== SMA CROSSOVER STRATEGY ===">>,
           <<"(Strategy evaluation skipped due to connection/error)">>>>
    ELSE format_strategy_report(strategy.results)

\* the trade universes handed to run_strategy
StrategyUniverses == {None, Some(<<AAPL>>), Some(<<AAPL, MSFT>>), Some(<<MSFT, AAPL, SPY>>)}

StrategyCalls ==
    {[fn |-> "run_strategy", symbols |-> symbols, connect_ok |-> ok, outcomes |-> outcomes] :
        symbols \in StrategyUniverses, ok \in BOOLEAN,
        outcomes \in [1..StrategyPattern -> EvalOutcomes]}

\* build_strategy_section's strategy part: run_strategy, then its lines
run_strategy_returns ==
    /\ call.fn = "run_strategy"
    /\ ret = NotReturned
    /\ LET strategy == run_strategy(call.symbols, call.connect_ok, call.outcomes)
       IN  ret' = Some([raised |-> strategy.raised,
                        disconnected |-> strategy.disconnected,
                        results |-> strategy.results,
                        evaluated |-> strategy.evaluated,
                        orders |-> strategy.orders,
                        lines |-> strategy_report_lines(strategy)])
    /\ FnUnchanged

InitStrategy == call \in StrategyCalls /\ FnRest

NextStrategy == run_strategy_returns

SpecStrategy == InitStrategy /\ [][NextStrategy]_vars

\* ---- report_generator.generate_report, and a dispatcher run report by report

\* what the symbols of a report meet, in turn, once the session is there
ReportScanOutcomes ==
    <<[raises |-> FALSE, bars |-> Some(MakeBars(50, "rising"))],
      [raises |-> FALSE, bars |-> None],
      [raises |-> TRUE, bars |-> None]>>

\* what evaluate_symbol comes to for the symbols of a report, in turn
ReportEvalOutcomes ==
    <<[kind |-> "result", signal |-> "BUY", position |-> 0],
      [kind |-> "none", signal |-> "HOLD", position |-> 0]>>

\* the broker during one report: what connect() returns in run_scanner,
\* _extract_total_value, format_positions and run_strategy, and what the
\* evaluations come to
ReportEnvs ==
    [scan_ok : BOOLEAN, value_ok : BOOLEAN, positions_ok : BOOLEAN, strategy_ok : BOOLEAN]

\* 1) of build_strategy_section, the history file being empty before
portfolio_lines(value_ok) ==
    <<<<"=== PORTFOLIO VALUE HISTORY ===">>,
      IF value_ok THEN <<"{timestamp}", ": $", "{total_value:,.2f}">>
      ELSE <<"Could not retrieve portfolio value.">>,
      <<>>>>

\* 2) of build_strategy_section, the account holding nothing
positions_lines(positions_ok) ==
    <<<<"=== CURRENT POSITIONS ===">>,
      IF positions_ok THEN <<"No open positions.">>
      ELSE <<"Could not connect to IBKR for positions.">>,
      <<>>>>

\* 3) of build_strategy_section, SMA_STRATEGY_TYPE being "position"
settings_lines ==
    <<<<"=== SMA STRATEGY SETTINGS ===">>, <<"Mode: ", "position">>,
      <<"Timeframe: ", "1 day">>, <<"SMA fast/slow: ", "50", "/", "200">>, <<>>>>

\* build_strategy_section(strategy_symbols): its lines, and what run_strategy
\* came to
build_strategy_section(strategy_symbols, env) ==
    LET strategy == run_strategy(Some(strategy_symbols), env.strategy_ok, ReportEvalOutcomes)
    IN  [strategy |-> strategy,
         lines |-> portfolio_lines(env.value_ok) \o positions_lines(env.positions_ok)
                   \o settings_lines \o strategy_report_lines(strategy)]

\* session = "pre-market" if hour < 12 else "post-market"
session_of(hour) == IF hour < 12 THEN "pre-market" ELSE "post-market"

\* session.upper().replace("-", " ")
phase_label(session) == IF session = "pre-market" THEN "PRE MARKET" ELSE "POST MARKET"

\* generate_report(session, symbols, include_strategy, strategy_symbols) for
\* the universes rep: the lines of the report, with the snapshot and the
\* strategy results they were made from; raised when run_scanner raised
generate_report_text(rep, session, env) ==
    LET scanner == run_scanner(Some(rep.symbols), env.scan_ok, ReportScanOutcomes)
        section == build_strategy_section(rep.strategy_symbols, env)
        header == <<<<"===">>,
                    <<"  ALGO TRADING BOT - ", "US", " ", phase_label(session), " REPORT">>,
                    <<"  ", "{now_market}", " (", "America/New_York", ")">>,
                    <<"===">>, <<>>>>
    IN  [raised |-> scanner.raised,
         include_strategy |-> rep.include_strategy,
         snapshot |-> scanner.snapshot,
         results |-> IF rep.include_strategy THEN section.strategy.results ELSE <<>>,
         strategy_raised |-> rep.include_strategy /\ section.strategy.raised,
         lines |-> header \o format_market_report(scanner.snapshot, session)
                   \o <<<<>>, <<>>>>
                   \o (IF rep.include_strategy THEN section.lines ELSE <<>>)]

\* one iteration of the loop of _run_user_reports, the report made from what
\* the broker does; sent tells whether the delivery went through
run_user_reports_report(env, delivered) ==
    /\ ur.pc = "loop"
    /\ LET user == current_user(ur, registry)
       IN  IF ~user.subscribed
           THEN ur' = next_user(ur) /\ UNCHANGED log_vars
           ELSE IF ~should_run(user, ur.minute_of_day, ur.current_time)
           THEN ur' = next_user(ur) /\ UNCHANGED log_vars
           ELSE \E report \in {generate_report_text(user_report(user),
                                     session_of(ur.minute_of_day \div 60), env)} :
                LET entry == [job |-> "user_reports", chat_id |-> user.chat_id,
                              report |-> report, env |-> env]
                IN
                /\ due' = Append(due, user.chat_id)
                /\ generated' = IF report.raised THEN generated
                                ELSE Append(generated, entry)
                /\ sent' = IF ~report.raised /\ delivered
                           THEN sent \o Tagged(send_telegram_report_to_user(
                                                   report.lines, delivery_chat_id(user)),
                                               "user_reports", user.chat_id)
                           ELSE sent
                /\ failed' = IF ~report.raised /\ delivered THEN failed
                             ELSE Append(failed, [chat_id |-> user.chat_id,
                                                  raised |-> report.raised])
                /\ ur' = IF report.raised THEN on_exception(ur) ELSE next_user(ur)
    /\ UNCHANGED <<config_vars, registry, clock, gl, unsubscribed_at_tick, cmds,
                   broker_vars, wr, fn_vars>>

\* minutes at which the dispatcher runs alone
OutageMinutes == {120, 780}

ArgMu == <<"m", "u">>

\* chat 1 and chat 12 with their own symbols, both every 60 minutes; chat 5
\* unsubscribed
OutageRegistry ==
    _handle_setfrequency(
        _handle_setsymbols(
            _handle_unsubscribe(
                _handle_setfrequency(
                    _handle_setfrequency(_handle_setsymbols(<<>>, 1, ArgAapl), 1, Arg60),
                    5, Arg60),
                5),
            12, ArgMu),
        12, Arg60)

InitOutage ==
    /\ \E c \in BrokerConfigs :
          /\ TELEGRAM_CHAT_ID = c.chat
          /\ OWNER_TELEGRAM_CHAT_ID = c.owner
    /\ registry = OutageRegistry
    /\ clock = 0
    /\ ur = IdleJob
    /\ gl = "idle"
    /\ due = <<>>
    /\ generated = <<>>
    /\ sent = <<>>
    /\ failed = <<>>
    /\ unsubscribed_at_tick = {}
    /\ cmds = 0
    /\ BrokerIdle

OutageTick == \E m \in OutageMinutes : SchedulerFires(m)

NextOutage ==
    \/ OutageTick
    \/ run_user_reports_begin
    \/ \E env \in ReportEnvs, delivered \in BOOLEAN : run_user_reports_report(env, delivered)

SpecOutage == InitOutage /\ [][NextOutage]_vars

\* ---- ibkr_connection.place_market_order

\* the order that goes to the broker whatever PAPER_TRADING says
place_market_order_live(symbol, action, quantity, env) ==
    IF ~env.is_connected /\ ~env.connect_ok
    THEN [trade |-> None, placed |-> <<>>, log |-> <<>>]
    ELSE IF env.placeOrder_raises
    THEN [trade |-> None, placed |-> <<>>, log |-> <<<<"Failed to place order: ", "{e}">>>>]
    ELSE [trade |-> Some([symbol |-> symbol, action |-> action, quantity |-> quantity]),
          placed |-> <<[symbol |-> symbol, action |-> action, quantity |-> quantity]>>,
          log |-> <<<<"Order placed: ", action, " ", quantity, " ">> \o symbol>>]

\* place_market_order(symbol, action, quantity): what it returns, the orders
\* ib.placeOrder was called with, and the lines it logs.  env holds
\* config.PAPER_TRADING, ib.isConnected(), what connect() returns when
\* called, and whether ib.placeOrder raises.
place_market_order(symbol, action, quantity, env) ==
    IF ~env.is_connected /\ ~env.connect_ok
    THEN [trade |-> None, placed |-> <<>>, log |-> <<>>]
    ELSE IF env.PAPER_TRADING
    THEN [trade |-> None, placed |-> <<>>,
          log |-> <<<<"[PAPER] Would place ", action, " ", quantity, " ">> \o symbol>>]
    ELSE IF env.placeOrder_raises
    THEN [trade |-> None, placed |-> <<>>, log |-> <<<<"Failed to place order: ", "{e}">>>>]
    ELSE [trade |-> Some([symbol |-> symbol, action |-> action, quantity |-> quantity]),
          placed |-> <<[symbol |-> symbol, action |-> action, quantity |-> quantity]>>,
          log |-> <<<<"Order placed: ", action, " ", quantity, " ">> \o symbol>>]

OrderEnvs ==
    [PAPER_TRADING : BOOLEAN, is_connected : BOOLEAN, connect_ok : BOOLEAN,
     placeOrder_raises : BOOLEAN]

\* quantities as texts: SHARES_PER_TRADE, a position held, and nothing
OrderQuantities == {"0", "5", "10"}

OrderCalls ==
    {[fn |-> "place_market_order", symbol |-> symbol, action |-> action,
      quantity |-> quantity, env |-> env] :
        symbol \in {AAPL, SPY}, action \in {"BUY", "SELL"},
        quantity \in OrderQuantities, env \in OrderEnvs}

place_market_order_returns ==
    /\ call.fn = "place_market_order"
    /\ ret = NotReturned
    /\ ret' = Some(place_market_order(call.symbol, call.action, call.quantity, call.env))
    /\ FnUnchanged

InitOrder == call \in OrderCalls /\ FnRest

NextOrder == place_market_order_returns

SpecOrder == InitOrder /\ [][NextOrder]_vars

\* ---- notifier.send_report, channel by channel

\* methods in NOTIFICATION_METHODS at most
MaxMethods == 3

\* the channels send_report knows
Channels == {"telegram", "email", "whatsapp"}

\* what NOTIFICATION_METHODS may list: the channels, and a name that is none
MethodNames == Channels \cup {"sms"}

\* the loop that ends at the first channel that fails
RECURSIVE send_report_until_failure(_, _)
send_report_until_failure(methods, working) ==
    IF methods = <<>> THEN [attempted |-> <<>>, success |-> FALSE]
    ELSE IF methods[1] \notin Channels THEN send_report_until_failure(Tail(methods), working)
    ELSE IF methods[1] \notin working THEN [attempted |-> <<methods[1]>>, success |-> FALSE]
    ELSE LET rest == send_report_until_failure(Tail(methods), working)
         IN  [attempted |-> <<methods[1]>> \o rest.attempted, success |-> TRUE]

\* "for method in config.NOTIFICATION_METHODS" of send_report: the channels
\* whose send function is called, in order, and the value of success at the
\* end.  working holds the channels whose send function returns True; each
\* send function returns False when it is not configured or its request fails.
RECURSIVE send_report_loop(_, _)
send_report_loop(methods, working) ==
    IF methods = <<>> THEN [attempted |-> <<>>, success |-> FALSE]
    ELSE LET rest == send_report_loop(SubSeq(methods, 1, Len(methods) - 1), working)
             method == methods[Len(methods)]
         IN  IF method \in Channels
             THEN [attempted |-> Append(rest.attempted, method),
                   success |-> rest.success \/ method \in working]
             ELSE rest

RECURSIVE Seqs(_, _)
Seqs(S, n) ==
    IF n = 0 THEN {<<>>}
    ELSE LET shorter == Seqs(S, n - 1)
         IN  shorter \cup {Append(s, x) : s \in shorter, x \in S}

SendReportCalls ==
    {[fn |-> "send_report", methods |-> methods, working |-> working] :
        methods \in Seqs(MethodNames, MaxMethods), working \in SUBSET Channels}

send_report_returns ==
    /\ call.fn = "send_report"
    /\ ret = NotReturned
    /\ ret' = Some(send_report_loop(call.methods, call.working))
    /\ FnUnchanged

InitNotify == call \in SendReportCalls /\ FnRest

NextNotify == send_report_returns

SpecNotify == InitNotify /\ [][NextNotify]_vars

\* ---- a day of ticks for recipients on a frequency

Arg7 == <<"7">>

\* chat 1 /setfrequency 60; chat 12 /setfrequency 7
FrequencyRegistry ==
    _handle_setfrequency(_handle_setfrequency(<<>>, 1, Arg60), 12, Arg7)

InitFrequency ==
    /\ \E c \in Configs :
          /\ TELEGRAM_CHAT_ID = c.chat
          /\ OWNER_TELEGRAM_CHAT_ID = c.owner
    /\ registry = FrequencyRegistry
    /\ clock = 0
    /\ ur = IdleJob
    /\ gl = "idle"
    /\ due = <<>>
    /\ generated = <<>>
    /\ sent = <<>>
    /\ failed = <<>>
    /\ unsubscribed_at_tick = {}
    /\ cmds = 0
    /\ BrokerIdle

SpecFrequency == InitFrequency /\ [][NextDay]_vars


\* ------------------------------------------- one command, as a function
\*
\* _process_update splits the text into the command and its argument string
\* and calls the handler; the handler leaves the registry document behind.

CommandNames == {"/setsymbols", "/settimes", "/setfrequency"}

\* argument strings as typed after the command
CommandArgs ==
    SymbolArgs \cup TimeArgs \cup FreqArgs \cup
    {<<",">>, <<" ", ",", " ">>,
     <<"8", ":", "0", "0">>, <<"2", "4", ":", "0", "0">>, <<"1", "2", ":", "6", "0">>,
     <<"0", "8", "0", "0">>, <<"2", "3", ":", "5", "9">>,
     <<"4">>, <<"5">>, <<"+", "7">>, <<"6", "0", " ", "x">>, <<"x", " ", "6", "0">>,
     <<"6", "0", "m">>, <<" ">>}

\* the registry before the command
CommandRegistries == {<<>>, DayRegistryA, DayRegistryB, OutageRegistry}

\* the dispatch of _process_update on the command name
_process_update(data, cmd, chat_id, args) ==
    CASE cmd = "/setsymbols" -> _handle_setsymbols(data, chat_id, args)
      [] cmd = "/settimes" -> _handle_settimes(data, chat_id, args)
      [] cmd = "/setfrequency" -> _handle_setfrequency(data, chat_id, args)
      [] OTHER -> data

CommandCalls ==
    {[fn |-> "_process_update", data |-> data, cmd |-> cmd, chat_id |-> c, args |-> args] :
        data \in CommandRegistries, cmd \in CommandNames, c \in ChatIds \cup {5},
        args \in CommandArgs}

process_update_returns ==
    /\ call.fn = "_process_update"
    /\ ret = NotReturned
    /\ ret' = Some(_process_update(call.data, call.cmd, call.chat_id, call.args))
    /\ FnUnchanged

InitCommand == call \in CommandCalls /\ FnRest

NextCommand == process_update_returns

SpecCommand == InitCommand /\ [][NextCommand]_vars

\* ------------------------------------------------------ portfolio history
\*
\* data/portfolio_history.json under a sequence of record_snapshot and
\* get_recent_history calls.  call holds the configured length, the file and
\* the snapshots recorded so far; ret holds what the last call returned.

\* record_snapshot calls in one behaviour
MaxSnapshots == 4

\* the largest PORTFOLIO_HISTORY_LENGTH looked at
MaxHistoryLength == 3

\* int(os.getenv("PORTFOLIO_HISTORY_LENGTH", "10")): any integer the
\* environment gives, here none to MaxHistoryLength
HistoryLengths == 0..MaxHistoryLength

\* what _extract_total_value returns: None (no connection, no usable row) or
\* the account value
TotalValues == {None, Some(100), Some(250)}

\* items[-n:] of a Python list: the start index -n is counted from the end
\* when negative and from the front otherwise, so items[-0:] is items[0:]
slice_from_minus(items, n) ==
    LET lower == IF 0 - n < 0
                 THEN (IF Len(items) - n > 0 THEN Len(items) - n ELSE 0)
                 ELSE (IF 0 - n < Len(items) THEN 0 - n ELSE Len(items))
    IN  SubSeq(items, lower + 1, Len(items))

\* record_snapshot(): the file it leaves behind
record_snapshot_file(file, length, value, now) ==
    IF value = None THEN file
    ELSE slice_from_minus(
             Append(file, [timestamp |-> now, total_value |-> value[1]]), length)

\* get_recent_history()
get_recent_history(file, length) == slice_from_minus(file, length)

HistoryUnchanged ==
    UNCHANGED <<config_vars, registry, clock, ur, gl, log_vars, unsubscribed_at_tick,
                cmds, broker_vars, wr>>

record_snapshot(value) ==
    /\ call.fn = "portfolio_history"
    /\ call.calls < MaxSnapshots
    /\ call' = [call EXCEPT
                  !.calls = @ + 1,
                  !.before = call.file,
                  !.file = record_snapshot_file(call.file, call.length, value, call.calls + 1),
                  !.recorded = IF value = None THEN @
                               ELSE Append(@, [timestamp |-> call.calls + 1,
                                               total_value |-> value[1]])]
    /\ ret' = [fn |-> "record_snapshot", value |-> value]
    /\ HistoryUnchanged

get_recent_history_returns ==
    /\ call.fn = "portfolio_history"
    /\ ret' = [fn |-> "get_recent_history",
               value |-> get_recent_history(call.file, call.length)]
    /\ UNCHANGED call
    /\ HistoryUnchanged

InitHistory ==
    /\ \E length \in HistoryLengths :
          call = [fn |-> "portfolio_history", length |-> length, file |-> <<>>,
                  before |-> <<>>, recorded |-> <<>>, calls |-> 0]
    /\ FnRest

NextHistory ==
    \/ \E value \in TotalValues : record_snapshot(value)
    \/ get_recent_history_returns

SpecHistory == InitHistory /\ [][NextHistory]_vars

\* ---- sma_strategy.evaluate_symbol, from the bars to the signal

\* the fast and slow periods of _get_sma_settings: 20/50 for scalping and
\* swing, and the same computation with short periods
EvalSettings ==
    {[fast |-> 2, slow |-> 3], [fast |-> 2, slow |-> 5], [fast |-> 3, slow |-> 5],
     [fast |-> 20, slow |-> 50]}

\* the numbers of bars a fetch returns for a setting: around the slow period,
\* and from none on for the short periods
EvalBarCounts(settings) ==
    IF settings.slow > 5 THEN (settings.slow - 2)..(settings.slow + 2)
    ELSE 0..(settings.slow + 2)

\* the bar at which a series changes direction
EvalTurns(n) == IF n < 3 THEN {2} ELSE {p \in {3, 4, n - 2, n - 1} : p >= 2 /\ p <= n}

\* the bars of a fetch, with the turn of the closes at bar p
MakeBarsTurning(n, kind, p) ==
    LET close == Closes(n, kind, p)
    IN  [i \in 1..n |-> [close |-> close[i], high |-> close[i] + 1,
                         low |-> close[i] - 1, volume |-> 1000 + 10 * i]]

\* evaluate_symbol up to the signal: None for no bars or fewer than the slow
\* period, else the signal of detect_crossover on the frame of compute_sma;
\* prev_slow and curr_slow are the slow SMAs of rows [-3] and [-2]
evaluate_symbol_signal(bars, settings) ==
    IF bars = <<>> THEN [result |-> None, prev_slow |-> None, curr_slow |-> None]
    ELSE IF Len(bars) < settings.slow
    THEN [result |-> None, prev_slow |-> None, curr_slow |-> None]
    ELSE LET df == compute_sma(bars, settings.fast, settings.slow)
         IN  [result |-> Some(detect_crossover(df)),
              prev_slow |-> IF Len(df) >= 3 THEN df[Len(df) - 2].sma_slow ELSE None,
              curr_slow |-> IF Len(df) >= 2 THEN df[Len(df) - 1].sma_slow ELSE None]

\* the calls of one setting
EvaluateCallsOf(settings) ==
    UNION {{[fn |-> "evaluate_symbol", bars |-> MakeBarsTurning(n, kind, p),
             settings |-> settings] : kind \in CloseKinds, p \in EvalTurns(n)} :
           n \in EvalBarCounts(settings)}

EvaluateCalls == UNION {EvaluateCallsOf(settings) : settings \in EvalSettings}

evaluate_symbol_returns ==
    /\ call.fn = "evaluate_symbol"
    /\ ret = NotReturned
    /\ \E r \in {evaluate_symbol_signal(call.bars, call.settings)} : ret' = Some(r)
    /\ FnUnchanged

InitEvaluate == call \in EvaluateCalls /\ FnRest

NextEvaluate == evaluate_symbol_returns

SpecEvaluate == InitEvaluate /\ [][NextEvaluate]_vars

\* ---- a day of ticks for recipients on a frequency that does not divide
\* the default report times

\* chat 1 /setfrequency 45; chat 12 /settimes 02:00, /setfrequency 45
DefaultTimesRegistry ==
    _handle_setfrequency(
        _handle_settimes(_handle_setfrequency(<<>>, 1, Arg45), 12, Arg0200),
        12, Arg45)

InitDefaultTimes ==
    /\ \E c \in Configs :
          /\ TELEGRAM_CHAT_ID = c.chat
          /\ OWNER_TELEGRAM_CHAT_ID = c.owner
    /\ registry = DefaultTimesRegistry
    /\ clock = 0
    /\ ur = IdleJob
    /\ gl = "idle"
    /\ due = <<>>
    /\ generated = <<>>
    /\ sent = <<>>
    /\ failed = <<>>
    /\ unsubscribed_at_tick = {}
    /\ cmds = 0
    /\ BrokerIdle

SpecDefaultTimes == InitDefaultTimes /\ [][NextDay]_vars

\* ------------------------------------------------- the bot's long-poll loop
\*
\* run_bot asks Telegram for the updates from its offset on, and hands each
\* update of the answer to _process_update after moving the offset past it.
\* call holds the loop's offset and the rest of the batch, the updates
\* Telegram has, the updates handed to _process_update so far, those whose
\* handler raised, and those a raise left unprocessed in their batch.

\* updates that arrive in one behaviour, with update_id 1, 2, ...
MaxUpdates == 4

\* the bot before its first poll: offset None
BotStart ==
    [fn |-> "run_bot", arrived |-> 0, offset |-> None, batch |-> <<>>,
     last |-> "none", handed |-> <<>>, raised |-> {}, dropped |-> {}]

\* getUpdates: the updates Telegram answers with, the first `count` from the
\* offset on, or from the oldest one it keeps when no offset is given
getUpdates_result(st, count) ==
    LET from == IF st.offset = None THEN 1 ELSE st.offset[1]
    IN  [k \in 1..count |-> from + k - 1]

\* the numbers of updates an answer can hold
getUpdates_counts(st) ==
    LET from == IF st.offset = None THEN 1 ELSE st.offset[1]
    IN  0..(IF st.arrived - from + 1 > 0 THEN st.arrived - from + 1 ELSE 0)

\* the loop body that moves the offset only when the handler has returned
run_bot_handle_offset_after(st, raises) ==
    LET update_id == st.batch[1]
    IN  IF raises
        THEN [st EXCEPT !.handed = Append(@, update_id),
                        !.raised = @ \cup {update_id},
                        !.dropped = @ \cup {st.batch[k] : k \in 2..Len(st.batch)},
                        !.batch = <<>>]
        ELSE [st EXCEPT !.offset = Some(update_id + 1),
                        !.handed = Append(@, update_id),
                        !.batch = Tail(@)]

\* "offset = update['update_id'] + 1; _process_update(update)" for the next
\* update of the batch; an exception of the handler leaves the for loop for
\* the except clause of the while loop
run_bot_handle(st, raises) ==
    LET update_id == st.batch[1]
    IN  IF raises
        THEN [st EXCEPT !.offset = Some(update_id + 1),
                        !.handed = Append(@, update_id),
                        !.raised = @ \cup {update_id},
                        !.dropped = @ \cup {st.batch[k] : k \in 2..Len(st.batch)},
                        !.batch = <<>>]
        ELSE [st EXCEPT !.offset = Some(update_id + 1),
                        !.handed = Append(@, update_id),
                        !.batch = Tail(@)]

BotUnchanged ==
    UNCHANGED <<config_vars, registry, clock, ur, gl, log_vars, unsubscribed_at_tick,
                cmds, broker_vars, wr, ret>>

\* a user sends the bot a message
update_arrives ==
    /\ call.fn = "run_bot"
    /\ call.arrived < MaxUpdates
    /\ call' = [call EXCEPT !.arrived = @ + 1]
    /\ BotUnchanged

\* _call("getUpdates", ...) returns an answer with ok = true
getUpdates_ok ==
    /\ call.fn = "run_bot"
    /\ call.batch = <<>>
    /\ \E count \in getUpdates_counts(call) :
          call' = [call EXCEPT !.batch = getUpdates_result(call, count),
                               !.last = "ok"]
    /\ BotUnchanged

\* _call raises (the request failed), or the answer has ok = false: the loop
\* sleeps and polls again
getUpdates_fails ==
    /\ call.fn = "run_bot"
    /\ call.batch = <<>>
    /\ \E outcome \in {"raises", "not_ok"} : call' = [call EXCEPT !.last = outcome]
    /\ BotUnchanged

\* one iteration of "for update in data.get('result', [])"
run_bot_update ==
    /\ call.fn = "run_bot"
    /\ call.batch # <<>>
    /\ \E raises \in BOOLEAN : call' = run_bot_handle(call, raises)
    /\ BotUnchanged

InitBot == call = BotStart /\ FnRest

NextBot ==
    \/ update_arrives
    \/ getUpdates_ok
    \/ getUpdates_fails
    \/ run_bot_update

SpecBot == InitBot /\ [][NextBot]_vars

\* ------------------------------------------------------------ the claims

\* the dispatcher delivered a report to chat c in this run
Delivered(c) ==
    \E k \in 1..Len(sent) : sent[k].job = "user_reports" /\ sent[k].chat_id = c

\* the dispatcher's report for chat c raised or was not sent in this run
Failed(c) == \E k \in 1..Len(failed) : failed[k].chat_id = c

\* the k-th user read by this run has been through the loop
Processed(k) == ur.pc = "done" \/ (ur.pc = "loop" /\ k < ur.i)

\* how often x occurs in a list
Count(x, list) == Cardinality({k \in 1..Len(list) : list[k] = x})

\* the deliveries and the reports of the dispatcher, by chat id
SentTo == [k \in 1..Len(sent) |-> IF sent[k].job = "user_reports" THEN sent[k].chat_id ELSE 0]
GeneratedFor ==
    [k \in 1..Len(generated) |->
        IF generated[k].job = "user_reports" THEN generated[k].chat_id ELSE 0]

\* C1: in one run of the per-minute dispatcher each recipient has a report
\* generated at most once and delivered at most once, also when its frequency
\* and one of its times both match the minute.
C1_AtMostOncePerRun ==
    \A c \in ChatIds :
        /\ Count(c, SentTo) <= 1
        /\ Count(c, GeneratedFor) <= 1
        /\ Count(c, due) <= 1
        /\ Count(str(c), [k \in 1..Len(sent) |->
                            IF sent[k].job = "user_reports" THEN sent[k].dest ELSE <<>>]) <= 1

\* C1 witness: a recipient whose frequency and explicit time both match the
\* minute has been delivered its report.
C1_Witness ==
    \E k \in 1..Len(ur.users) :
        /\ Processed(k)
        /\ by_frequency(ur.users[k], ur.minute_of_day)
        /\ by_time(ur.users[k], ur.current_time)
        /\ Delivered(ur.users[k].chat_id)

\* minute of the day of a valid "HH:MM"
MinuteOf(t) == int(SubSeq(t, 1, 2)) * 60 + int(SubSeq(t, 4, 5))

\* the condition of C2, by minute arithmetic
ClaimDue(user, m) ==
    /\ user.subscribed
    /\ \/ /\ user.frequency_minutes # None
          /\ user.frequency_minutes[1] > 0
          /\ m % user.frequency_minutes[1] = 0
       \/ \E k \in 1..Len(effective_times(user)) : MinuteOf(effective_times(user)[k]) = m

\* C2: in a run at minute m a subscribed recipient gets a report (or its
\* report fails) iff its frequency divides m or HH:MM is one of its effective
\* times; a recipient for which neither holds gets none.
C2_DueIff ==
    \A k \in 1..Len(ur.users) :
        Processed(k) =>
            LET c == ur.users[k].chat_id
            IN  /\ (Delivered(c) \/ Failed(c)) <=> ClaimDue(ur.users[k], clock)
                /\ In(c, due) <=> ClaimDue(ur.users[k], clock)
                /\ (ur.users[k].frequency_minutes = Some(60)
                    /\ ur.users[k].subscribed /\ ur.users[k].times = None)
                   => (In(c, due) <=> clock \in {h * 60 : h \in 0..23})

\* C2 witness: at 02:00 (m = 120) the recipient with frequency 60 and no times
\* of its own has been delivered its report.
C2_Witness ==
    /\ clock = 120
    /\ \E k \in 1..Len(ur.users) :
          /\ ur.users[k].frequency_minutes = Some(60)
          /\ ur.users[k].times = None
          /\ Delivered(ur.users[k].chat_id)

\* C3: a subscribed recipient with times ["08:00","20:00"] and no frequency
\* gets a report at the ticks 08:00 and 20:00 and at no other tick of the day.
C3_TwoTicksADay ==
    \A k \in 1..Len(ur.users) :
        (/\ Processed(k)
         /\ ur.users[k].subscribed
         /\ ur.users[k].times = Some(<<T0800, T2000>>)
         /\ ur.users[k].frequency_minutes = None)
        => LET c == ur.users[k].chat_id
           IN  /\ In(c, due) <=> clock \in {480, 1200}
               /\ (Delivered(c) \/ Failed(c)) <=> clock \in {480, 1200}

\* C3 witness: the 20:00 tick has delivered that recipient's report.
C3_Witness ==
    /\ clock = 1200
    /\ \E k \in 1..Len(ur.users) :
          /\ ur.users[k].times = Some(<<T0800, T2000>>)
          /\ ur.users[k].frequency_minutes = None
          /\ Delivered(ur.users[k].chat_id)

\* the recipient passes the gate of the loop in this run
Eligible(user) ==
    user.subscribed /\ should_run(user, ur.minute_of_day, ur.current_time)

\* C4: an exception while building, saving or sending one due recipient's
\* report does not leave _run_user_reports, and every other due recipient of
\* the run still has its report attempted: at the end each due recipient has
\* been delivered its report or has a failure of its own.
C4_FailureIsolated ==
    /\ ur.pc # "crashed"
    /\ ur.pc \in {"done", "crashed"} =>
          \A k \in 1..Len(ur.users) :
              Eligible(ur.users[k]) =>
                  /\ In(ur.users[k].chat_id, due)
                  /\ Delivered(ur.users[k].chat_id) \/ Failed(ur.users[k].chat_id)

\* C4 witness: the run is over, an earlier recipient's report raised and a
\* later recipient's report was delivered.
C4_Witness ==
    /\ ur.pc = "done"
    /\ \E k1, k2 \in 1..Len(ur.users) :
          /\ k1 < k2
          /\ \E f \in 1..Len(failed) :
                failed[f].chat_id = ur.users[k1].chat_id /\ failed[f].raised
          /\ Delivered(ur.users[k2].chat_id)

\* C5: the dispatcher builds the strategy section only for the recipient
\* whose chat id is OWNER_TELEGRAM_CHAT_ID; every other recipient's report is
\* indicator-only, with no strategy universe, whatever its settings.
C5_StrategyOnlyForOwner ==
    \A k \in 1..Len(generated) :
        generated[k].job = "user_reports" =>
            LET owner == /\ OWNER_TELEGRAM_CHAT_ID # <<>>
                         /\ int(OWNER_TELEGRAM_CHAT_ID) = generated[k].chat_id
                         /\ str(generated[k].chat_id) = OWNER_TELEGRAM_CHAT_ID
            IN  /\ generated[k].report.include_strategy <=> owner
                /\ ~owner => generated[k].report.strategy_symbols = <<>>

\* C5 witness: a report was generated for a recipient that is not the owner
\* and has symbols of its own.
C5_Witness ==
    \E k \in 1..Len(generated), u \in 1..Len(ur.users) :
        /\ generated[k].job = "user_reports"
        /\ generated[k].chat_id = ur.users[u].chat_id
        /\ str(generated[k].chat_id) # OWNER_TELEGRAM_CHAT_ID
        /\ OWNER_TELEGRAM_CHAT_ID # <<>>
        /\ ur.users[u].symbols # None
        /\ ~generated[k].report.include_strategy

\* C6 (as claimed): a recipient that was unsubscribed when the tick began,
\* and has not subscribed since, is delivered no report in that tick.
C6_NoReportWhileUnsubscribed ==
    \A c \in unsubscribed_at_tick :
        \A k \in 1..Len(sent) : sent[k].dest # str(c)

\* C7: each report the dispatcher delivers goes to the chat id of the
\* recipient it was generated for, and is the report generated for it.
C7_DeliveredToRecipient ==
    \A k \in 1..Len(sent) :
        sent[k].job = "user_reports" =>
            /\ sent[k].dest = str(sent[k].chat_id)
            /\ \E g \in 1..Len(generated) :
                  /\ generated[g].job = "user_reports"
                  /\ generated[g].chat_id = sent[k].chat_id
                  /\ generated[g].report = sent[k].report

\* C7 witness: a report was delivered to a recipient while a different chat
\* is configured as TELEGRAM_CHAT_ID.
C7_Witness ==
    \E k \in 1..Len(sent) :
        /\ sent[k].job = "user_reports"
        /\ TELEGRAM_CHAT_ID # <<>>
        /\ sent[k].dest # TELEGRAM_CHAT_ID


\* no report job is running
NoJobRunning == \A j \in Jobs : th[j].pc \in {"idle", "done"}

\* C8: every run_scanner, run_strategy, snapshot-recording and
\* positions-formatting call ends with disconnect(), so that once the report
\* jobs of a tick have ended no broker session is left connected.
C8_NoSessionLeftConnected ==
    NoJobRunning => (connected = {} /\ ~leaked)

\* C9: no job has the session it opened with connect() dropped or replaced by
\* another job's disconnect() before its own disconnect().
C9_NoSessionDroppedByOtherJob ==
    \A j \in Jobs : ~th[j].dropped

C11_RegistryReadOnceAtStart ==
    [][/\ (ur.pc = "start" /\ ur'.pc = "loop") => ur'.users = all_users(registry)
       /\ (ur.pc = "loop" /\ ur' # ur) =>
             LET user == ur.users[ur.i]
             IN  /\ ur'.pc \in {"loop", "done"}
                 /\ ur'.users = ur.users
                 /\ due' # due =>
                       /\ due' = Append(due, user.chat_id)
                       /\ user.subscribed
                       /\ should_run(user, ur.minute_of_day, ur.current_time)
                 /\ due' = due =>
                       ~(user.subscribed
                         /\ should_run(user, ur.minute_of_day, ur.current_time))
                 /\ generated' # generated =>
                       generated'[Len(generated')].report = user_report(user)
      ]_vars

\* a run in progress has dispatched a recipient whose registry entry was
\* rewritten after the run had read it
C11_Witness ==
    /\ ur.pc \in {"loop", "done"}
    /\ \E k \in 1..Len(ur.users) :
          /\ Processed(k)
          /\ In(ur.users[k].chat_id, due)
          /\ get_user(registry, ur.users[k].chat_id) # Some(ur.users[k])
          /\ \E g \in 1..Len(generated) :
                /\ generated[g].job = "user_reports"
                /\ generated[g].chat_id = ur.users[k].chat_id
                /\ generated[g].report = user_report(ur.users[k])
                /\ generated[g].report #
                      user_report(get_user(registry, ur.users[k].chat_id)[1])


\* the recipients due at minute m among the users read, in the order read
DueAt(users, m) ==
    LET due_now(user) == ClaimDue(user, m)
        chat(k) == SelectSeq(users, due_now)[k].chat_id
    IN  [k \in 1..Len(SelectSeq(users, due_now)) |-> chat(k)]

\* C12: the recipients a finished run found due are a function of the minute
\* of that tick and of the registry it read, and of nothing else: no earlier
\* tick, run or skipped minute adds a recipient to them or takes one away.
C12_NoStateBetweenTicks ==
    ur.pc = "done" => due = DueAt(ur.users, clock)

\* the run of minute 02:01 has ended without a report for a subscribed
\* recipient whose only trigger, every 60 minutes, fell at 02:00
C12_Witness ==
    /\ ur.pc = "done"
    /\ clock = 121
    /\ \E k \in 1..Len(ur.users) :
          /\ ur.users[k].subscribed
          /\ ur.users[k].frequency_minutes = Some(60)
          /\ ~In(ur.users[k].chat_id, due)
          /\ ~Delivered(ur.users[k].chat_id)


\* C13: a step never removes an entry of the registry: the entries keep their
\* keys and their order, at most one entry is added, at most one entry
\* changes, and the step that turns subscribed off leaves the symbols, times
\* and frequency of that entry as they were.
C13_RegistryNeverShrinks ==
    [][/\ Len(registry') >= Len(registry)
       /\ Len(registry') <= Len(registry) + 1
       /\ \A k \in 1..Len(registry) :
             /\ registry'[k].key = registry[k].key
             /\ registry'[k].user.chat_id = registry[k].user.chat_id
             /\ registry'[k].user # registry[k].user =>
                   /\ Len(registry') = Len(registry)
                   /\ \A o \in 1..Len(registry) :
                         o # k => registry'[o] = registry[o]
             /\ (registry[k].user.subscribed /\ ~registry'[k].user.subscribed) =>
                   registry'[k].user = [registry[k].user EXCEPT !.subscribed = FALSE]
      ]_vars

\* a recipient has unsubscribed and is still stored, with the frequency it
\* had set
C13_Witness ==
    \E k \in 1..Len(registry) :
        /\ ~registry[k].user.subscribed
        /\ registry[k].user.frequency_minutes # None


\* the entry of the document under the key of chat c, None when it has none
EntryOf(data, c) == get_user(data, c)

\* C14: the save of upsert_user replaces the whole document by the one the
\* caller loaded with the caller's entry set.  When nothing was written since
\* the load, only that entry differs from the file as it was; when another
\* caller saved in between, every other entry is as the saving caller loaded
\* it, so what the other caller wrote to another key is gone.
C14_WholeDocumentLastWriteWins ==
    [][\A w \in Writers :
          (wr[w].pc = "loaded" /\ wr'[w].pc = "saved") =>
              LET mine == wr[w].user.chat_id
              IN  /\ EntryOf(registry', mine) = Some(wr[w].user)
                  /\ \A c \in ChatIds \ {mine} :
                        EntryOf(registry', c) = EntryOf(wr[w].data, c)
                  /\ Len(registry') =
                        Len(wr[w].data) + (IF EntryOf(wr[w].data, mine) = None THEN 1 ELSE 0)
                  /\ registry = wr[w].data =>
                        \A c \in ChatIds \ {mine} :
                            EntryOf(registry', c) = EntryOf(registry, c)
      ]_vars

\* two callers loaded the same document and both saved, for different chats:
\* the registry holds the later one's entry and has lost the earlier one's
C14_Witness ==
    \E w \in Writers, v \in Writers :
        /\ w # v
        /\ wr[w].pc = "saved" /\ wr[v].pc = "saved"
        /\ wr[w].data = wr[v].data
        /\ wr[w].user.chat_id # wr[v].user.chat_id
        /\ EntryOf(registry, wr[v].user.chat_id) = Some(wr[v].user)
        /\ EntryOf(registry, wr[w].user.chat_id) # Some(wr[w].user)
        /\ EntryOf(registry, wr[w].user.chat_id) = EntryOf(wr[v].data, wr[w].user.chat_id)


\* a string "HH:MM" with HH in 00..23 and MM in 00..59
ValidHHMM(t) ==
    /\ Len(t) = 5
    /\ t[3] = ":"
    /\ \A i \in {1, 2, 4, 5} : t[i] \in DigitChars
    /\ DigitVal(t[1]) * 10 + DigitVal(t[2]) <= 23
    /\ DigitVal(t[4]) * 10 + DigitVal(t[5]) <= 59

\* C15: whatever the commands were, every entry of the registry has times
\* unset or a non-empty list of valid HH:MM strings, and frequency_minutes
\* unset or an integer of at least 5.
C15_StoredConfigurationValid ==
    \A k \in 1..Len(registry) :
        LET user == registry[k].user
        IN  /\ user.times # None =>
                  /\ user.times[1] # <<>>
                  /\ \A n \in 1..Len(user.times[1]) : ValidHHMM(user.times[1][n])
            /\ user.frequency_minutes # None =>
                  /\ user.frequency_minutes[1] \in Nat
                  /\ user.frequency_minutes[1] > 0
                  /\ user.frequency_minutes[1] >= 5

\* all commands allowed have been handled, and the registry holds a recipient
\* with times of its own and a recipient with a frequency
C15_Witness ==
    /\ cmds = MaxCmds
    /\ \E k \in 1..Len(registry) : registry[k].user.times = Some(<<T0200>>)
    /\ \E k \in 1..Len(registry) : registry[k].user.frequency_minutes = Some(60)


\* the call of detect_crossover looked at has returned
CrossoverReturned == call.fn = "detect_crossover" /\ ret # NotReturned

\* rows [-3] and [-2] exist and have both SMA values
PrevCurrDefined(df) ==
    /\ Len(df) >= 3
    /\ df[Len(df) - 2].sma_fast # None /\ df[Len(df) - 2].sma_slow # None
    /\ df[Len(df) - 1].sma_fast # None /\ df[Len(df) - 1].sma_slow # None

\* the number a float of the inputs stands for (they are whole numbers)
Whole(x) == x[1].n

GoldenCross(df) ==
    /\ Whole(df[Len(df) - 2].sma_fast) <= Whole(df[Len(df) - 2].sma_slow)
    /\ Whole(df[Len(df) - 1].sma_fast) > Whole(df[Len(df) - 1].sma_slow)

DeathCross(df) ==
    /\ Whole(df[Len(df) - 2].sma_fast) >= Whole(df[Len(df) - 2].sma_slow)
    /\ Whole(df[Len(df) - 1].sma_fast) < Whole(df[Len(df) - 1].sma_slow)

RowOf(fast, slow) == [sma_fast |-> float(fast), sma_slow |-> float(slow)]

\* C16: detect_crossover returns HOLD for fewer than 3 rows or an undefined
\* SMA value in row [-3] or [-2]; otherwise BUY iff the golden cross holds,
\* SELL iff the death cross holds, HOLD in every other case; the two crosses
\* never hold together; PREV=(9,10), CURR=(11,10) gives BUY and PREV=(11,10),
\* CURR=(9,10) gives SELL.
C16_CrossoverSignal ==
    CrossoverReturned =>
        LET df == call.df
            signal == ret[1]
        IN  /\ signal \in {"BUY", "SELL", "HOLD"}
            /\ ~PrevCurrDefined(df) => signal = "HOLD"
            /\ PrevCurrDefined(df) =>
                  /\ signal = "BUY" <=> GoldenCross(df)
                  /\ signal = "SELL" <=> DeathCross(df)
                  /\ ~(GoldenCross(df) /\ DeathCross(df))
                  /\ (df[Len(df) - 2] = RowOf(9, 10) /\ df[Len(df) - 1] = RowOf(11, 10))
                        => signal = "BUY"
                  /\ (df[Len(df) - 2] = RowOf(11, 10) /\ df[Len(df) - 1] = RowOf(9, 10))
                        => signal = "SELL"

\* the fast SMA touched the slow one in row [-3] and is above it in row [-2]:
\* BUY
C16_Witness ==
    /\ CrossoverReturned
    /\ Len(call.df) = 3
    /\ call.df[1] = RowOf(10, 10)
    /\ call.df[2] = RowOf(11, 10)
    /\ ret = Some("BUY")

\* the frame with its last row replaced
WithLastRow(df, row) == [df EXCEPT ![Len(df)] = row]

\* C17: the signal does not depend on the last row: the frame that differs
\* from the one given only in the SMA values of its last row, undefined ones
\* included, gets the same signal.
C17_LastRowIgnored ==
    (CrossoverReturned /\ Len(call.df) >= 1) =>
        \A row \in Rows : detect_crossover(WithLastRow(call.df, row)) = ret[1]

\* BUY from rows [-3] and [-2] of a frame whose last row has no SMA values
\* and whose last two rows show no crossing
C17_Witness ==
    /\ CrossoverReturned
    /\ Len(call.df) = 4
    /\ call.df[2] = RowOf(9, 10)
    /\ call.df[3] = RowOf(11, 10)
    /\ call.df[4] = [sma_fast |-> None, sma_slow |-> None]
    /\ ret = Some("BUY")


\* the call of get_trend looked at has returned
TrendReturned == call.fn = "get_trend" /\ ret # NotReturned

\* the three arguments are numbers
TrendNumbers == call.sma_20 # None /\ call.sma_50 # None /\ call.rsi # None

\* C18: get_trend returns bullish iff sma_fast > sma_slow and rsi < 70,
\* bearish iff sma_fast < sma_slow and rsi > 30, neutral in every other case:
\* equal SMAs, fast above slow with rsi >= 70, fast below slow with rsi <= 30.
C18_TrendClassification ==
    /\ (TrendReturned /\ ~TrendNumbers) => ret = Some("neutral")
    /\ (TrendReturned /\ TrendNumbers) =>
        LET fast == Whole(call.sma_20)
            slow == Whole(call.sma_50)
            rsi == Whole(call.rsi)
            trend == ret[1]
        IN  /\ trend \in {"bullish", "bearish", "neutral"}
            /\ trend = "bullish" <=> (fast > slow /\ rsi < 70)
            /\ trend = "bearish" <=> (fast < slow /\ rsi > 30)
            /\ fast = slow => trend = "neutral"
            /\ (fast > slow /\ rsi >= 70) => trend = "neutral"
            /\ (fast < slow /\ rsi <= 30) => trend = "neutral"

\* fast above slow at rsi = 70: neutral
C18_Witness ==
    /\ TrendReturned
    /\ call.sma_20 = float(11) /\ call.sma_50 = float(10) /\ call.rsi = float(70)
    /\ ret = Some("neutral")


\* the call of compute_rsi looked at has returned
RsiReturned == call.fn = "compute_rsi" /\ ret # NotReturned

\* the last RSI_PERIOD changes of the series are all rises
WindowRising(series) ==
    /\ Len(series) > RSI_PERIOD
    /\ \A i \in (Len(series) - RSI_PERIOD + 1)..Len(series) : series[i] > series[i - 1]

\* C20: for closes that rise through the whole last window the reported RSI
\* is not the fallback 50.
C20_RisingWindowNotFifty ==
    (RsiReturned /\ WindowRising(call.series)) => ~float_eq(ret[1], float(50))


\* the call of scan_symbol looked at has returned
ScanReturned == call.fn = "scan_symbol" /\ ret # NotReturned

\* bars of the fetch, 0 when it failed
BarCount == IF call.bars = None THEN 0 ELSE Len(call.bars[1])

\* the fallback values of the numeric fields
FallbackValues(snap) ==
    /\ snap.price = float(0)
    /\ snap.sma_20 = float(0) /\ snap.sma_50 = float(0)
    /\ snap.rsi_14 = float(50)
    /\ snap.macd_line = float(0) /\ snap.macd_signal = float(0)
    /\ snap.macd_histogram = float(0)
    /\ snap.volume = 0 /\ snap.volume_sma_20 = float(0)
    /\ snap.atr_14 = float(0)

\* C19: scan_symbol returns a snapshot of the symbol whatever the fetch gave;
\* with no bars the snapshot has error set, with 1 to 49 bars the error is
\* "Insufficient data", and a snapshot with error set has the fallback values
\* in all numeric fields and trend "neutral".
C19_MissingDataSnapshot ==
    ScanReturned =>
        LET snap == ret[1]
        IN  /\ snap.symbol = call.symbol
            /\ BarCount = 0 => snap.error # None
            /\ (0 < BarCount /\ BarCount < 50) => snap.error = Some("Insufficient data")
            /\ snap.error # None => (FallbackValues(snap) /\ snap.trend = "neutral")

\* 49 rising bars: "Insufficient data" with the fallback values
C19_Witness ==
    /\ ScanReturned
    /\ BarCount = 49
    /\ call.bars[1][49].close > call.bars[1][1].close
    /\ ret[1].error = Some("Insufficient data")
    /\ FallbackValues(ret[1])
    /\ ret[1].trend = "neutral"

\* compute_sma has returned
SmaReturned == call.fn = "compute_sma" /\ ret # NotReturned

\* the arithmetic mean of the last min(period, n) closes of the frame
MeanOfLast(df, period) ==
    LET n == Len(df)
        k == IF n < period THEN n ELSE period
    IN  float_div(float_sum(SubSeq(column_close(df), n - k + 1, n)), float(k))

\* C21: the SMA of the latest row is the mean of the last `period` closes, and
\* the mean of all closes when the frame has fewer than `period` rows; it is
\* never undefined.
C21_SmaDefinedMean ==
    SmaReturned =>
        LET latest == ret[1][Len(ret[1])]
        IN  /\ latest.sma_fast # None
            /\ latest.sma_slow # None
            /\ float_eq(latest.sma_fast, MeanOfLast(call.df, call.fast))
            /\ float_eq(latest.sma_slow, MeanOfLast(call.df, call.slow))

\* run_scanner has returned and its snapshot is formatted
ScannerReturned == call.fn = "run_scanner" /\ ret # NotReturned

\* the line is the first indicator line of the symbol
IsIndicatorLine(line, symbol) ==
    /\ Len(line) > Len(symbol) + 2
    /\ line[1] \in {"green", "red", "white"}
    /\ SubSeq(line, 3, Len(symbol) + 2) = symbol
    /\ line[Len(symbol) + 3] = ": $"

\* how many lines of the report are indicator lines of the symbol
IndicatorLineCount(lines, symbol) ==
    Cardinality({k \in 1..Len(lines) : IsIndicatorLine(lines[k], symbol)})

\* how many lines of the errors section read "<symbol>: <error>"
ErrorEntryCount(lines, symbol, error) ==
    Cardinality({k \in 1..Len(lines) : lines[k] = <<"  - ">> \o symbol \o <<": ", error>>})

\* C22: in the formatted report a scanned symbol whose snapshot carries an
\* error has no indicator line and exactly one entry "<symbol>: <error>" in
\* the errors section, and a scanned symbol without an error has an indicator
\* line.
C22_ErrorsOutOfMainDisplay ==
    ScannerReturned =>
        \A k \in 1..Len(ret[1].snapshot.stocks) :
            LET stock == ret[1].snapshot.stocks[k]
            IN  IF stock.error # None
                THEN /\ IndicatorLineCount(ret[1].lines, stock.symbol) = 0
                     /\ ErrorEntryCount(ret[1].lines, stock.symbol, stock.error[1]) = 1
                ELSE IndicatorLineCount(ret[1].lines, stock.symbol) = 1

\* a report with AAPL shown, SPY failed to fetch and QQQ short of bars
C22_Witness ==
    /\ ScannerReturned
    /\ Len(ret[1].snapshot.stocks) = 3
    /\ ret[1].snapshot.stocks[1].error = None
    /\ ret[1].snapshot.stocks[2].error = Some("Failed to fetch data")
    /\ ret[1].snapshot.stocks[3].error = Some("Insufficient data")
    /\ IndicatorLineCount(ret[1].lines, AAPL) = 1
    /\ ErrorEntryCount(ret[1].lines, QQQ, "Insufficient data") = 1

\* the entries of the errors list that an exception left for the symbol
ExceptionEntries(errors, symbol) ==
    Cardinality({k \in 1..Len(errors) : errors[k] = symbol \o <<": ", ScanExceptionMessage>>})

\* the scan of symbol k of the universe raised
ScanRaised(k) == outcome_of(call.outcomes, k).raises

\* C23: run_scanner does not raise when the scan of a symbol does; the
\* exception is collected as "<symbol>: <message>" in the errors of the
\* snapshot, every symbol of the universe is scanned, the later ones
\* included, and the session is closed.
C23_ScanExceptionCollected ==
    (ScannerReturned /\ call.connect_ok) =>
        LET universe == all_symbols(IF call.symbols # None THEN call.symbols[1]
                                    ELSE SCAN_SYMBOLS)
            snapshot == ret[1].snapshot
        IN  /\ ~ret[1].raised
            /\ ret[1].disconnected
            /\ snapshot.scanned = universe
            /\ \A k \in 1..Len(universe) :
                  /\ ExceptionEntries(snapshot.errors, universe[k])
                        = (IF ScanRaised(k) THEN 1 ELSE 0)
                  /\ ~ScanRaised(k) => first_stock(snapshot.stocks, universe[k]) # None

\* the scan of AAPL raises, SPY and QQQ after it are scanned and shown
C23_Witness ==
    /\ ScannerReturned
    /\ call.connect_ok
    /\ call.symbols = Some(<<AAPL>>)
    /\ ScanRaised(1) /\ ~ScanRaised(2) /\ ~ScanRaised(3)
    /\ ret[1].snapshot.scanned = <<AAPL, SPY, QQQ>>
    /\ Len(ret[1].snapshot.stocks) = 2
    /\ ExceptionEntries(ret[1].snapshot.errors, AAPL) = 1

\* run_strategy has ended and the strategy lines of the report are built
StrategyReturned == call.fn = "run_strategy" /\ ret # NotReturned

\* the trade universe of the call
TradeUniverse == IF call.symbols # None THEN call.symbols[1] ELSE TRADE_SYMBOLS

\* the first line of the symbol's result is among the lines
ResultShown(lines, symbol) ==
    \E k \in 1..Len(lines) :
        /\ Len(lines[k]) > Len(symbol) + 1
        /\ SubSeq(lines[k], 1, Len(symbol)) = symbol
        /\ lines[k][Len(symbol) + 1] = ": "
        /\ lines[k][Len(symbol) + 2] \in {"BUY", "SELL", "HOLD"}

\* C24: with the session established, every symbol of the trade universe is
\* evaluated whatever happened to the others, and every symbol that came to
\* a result has it in the strategy lines of the report.
C24_StrategyFailureIsolated ==
    (StrategyReturned /\ call.connect_ok) =>
        /\ ret[1].evaluated = TradeUniverse
        /\ \A k \in 1..Len(TradeUniverse) :
              outcome_of(call.outcomes, k).kind = "result"
                 => ResultShown(ret[1].lines, TradeUniverse[k])

\* the report of the entry was made while connect() returned False in
\* run_scanner, and in run_strategy if the report has the strategy section
MadeWithoutBroker(entry) ==
    ~entry.env.scan_ok /\ (entry.report.include_strategy => ~entry.env.strategy_ok)

\* the entries of the recipients that were due, in the order of the registry
DueUsers ==
    SelectSeq(ur.users,
              LAMBDA u : u.subscribed /\ should_run(u, ur.minute_of_day, ur.current_time))

\* C25: with connect() returning False, run_scanner gives a snapshot with no
\* stocks and the one error "Failed to connect to IBKR", run_strategy gives no
\* results, nothing is raised, the report of every due recipient is
\* generated and handed to the delivery, and the run reaches its last
\* recipient.
C25_ReportWithoutBroker ==
    /\ ur.pc # "crashed"
    /\ \A k \in 1..Len(failed) : ~failed[k].raised
    /\ Len(generated) = Len(due)
    /\ Len(generated) = Len(sent) + Len(failed)
    /\ ur.pc = "done" => due = [k \in 1..Len(DueUsers) |-> DueUsers[k].chat_id]
    /\ \A k \in 1..Len(generated) :
          LET entry == generated[k]
          IN  /\ generated[k].chat_id = due[k]
              /\ ~entry.env.scan_ok =>
                    /\ entry.report.snapshot.stocks = <<>>
                    /\ entry.report.snapshot.errors = <<<<"Failed to connect to IBKR">>>>
              /\ (entry.report.include_strategy /\ ~entry.env.strategy_ok) =>
                    /\ entry.report.results = <<>>
                    /\ ~entry.report.strategy_raised

\* the owner's report (chat 1) and the report of chat 12 after it were both
\* made without the broker and both delivered
C25_Witness ==
    /\ ur.pc = "done"
    /\ Len(generated) = 2
    /\ generated[1].chat_id = 1 /\ generated[1].report.include_strategy
    /\ generated[2].chat_id = 12
    /\ MadeWithoutBroker(generated[1]) /\ MadeWithoutBroker(generated[2])
    /\ Len(sent) = 2
    /\ sent[1].report = generated[1].report.lines
    /\ sent[2].dest = <<"1", "2">>

\* place_market_order has returned
OrderReturned == call.fn = "place_market_order" /\ ret # NotReturned

\* the line "[PAPER] Would place <action> <quantity> <symbol>" of the call
PaperLine == <<"[PAPER] Would place ", call.action, " ", call.quantity, " ">> \o call.symbol

\* C26: while PAPER_TRADING is true, place_market_order calls ib.placeOrder
\* for no symbol, side or quantity and returns None; what it logs is the
\* intended order, once it has a session.
C26_PaperTradingPlacesNothing ==
    (OrderReturned /\ call.env.PAPER_TRADING) =>
        /\ ret[1].placed = <<>>
        /\ ret[1].trade = None
        /\ ret[1].log = IF call.env.is_connected \/ call.env.connect_ok
                        THEN <<PaperLine>> ELSE <<>>

\* a BUY of 10 AAPL in paper mode, connected, the broker accepting orders
C26_Witness ==
    /\ OrderReturned
    /\ call.env.PAPER_TRADING /\ call.env.is_connected /\ ~call.env.placeOrder_raises
    /\ call.symbol = AAPL /\ call.action = "BUY" /\ call.quantity = "10"
    /\ ret[1].placed = <<>>
    /\ ret[1].log = <<PaperLine>>

\* send_report has returned
SendReportReturned == call.fn = "send_report" /\ ret # NotReturned

\* the methods of the call that name a channel, in order
ListedChannels == SelectSeq(call.methods, LAMBDA m : m \in Channels)

\* C27: send_report calls the send function of every channel listed in
\* NOTIFICATION_METHODS, in the order listed, also after one of them failed,
\* and returns True exactly when one of them succeeded.
C27_EveryChannelAttempted ==
    SendReportReturned =>
        /\ ret[1].attempted = ListedChannels
        /\ ret[1].success <=> (\E k \in 1..Len(ListedChannels) :
                                  ListedChannels[k] \in call.working)

\* telegram fails first, email after it is still tried and succeeds
C27_Witness ==
    /\ SendReportReturned
    /\ call.methods = <<"telegram", "email", "whatsapp">>
    /\ call.working = {"email"}
    /\ ret[1].attempted = <<"telegram", "email", "whatsapp">>
    /\ ret[1].success

\* minutes in a day
MinutesPerDay == 1440

\* the minutes from minute m of the day to the user's next frequency-triggered
\* tick, the clock going round midnight
MinutesToNextFrequencyTick(user, m) ==
    CHOOSE d \in 1..MinutesPerDay :
        /\ by_frequency(user, (m + d) % MinutesPerDay)
        /\ \A e \in 1..(d - 1) : ~by_frequency(user, (m + e) % MinutesPerDay)

\* the dispatcher has found the user of entry k due at this tick, on its frequency
FrequencyTriggered(k) ==
    /\ ur.pc \in {"loop", "done"}
    /\ In(registry[k].user.chat_id, due)
    /\ by_frequency(registry[k].user, ur.minute_of_day)

\* C28: from a frequency-triggered tick of a recipient with frequency N to
\* its next one there are exactly N minutes, across midnight too.
C28_FrequencyEveryN ==
    \A k \in 1..Len(registry) :
        FrequencyTriggered(k) =>
            MinutesToNextFrequencyTick(registry[k].user, clock)
                = registry[k].user.frequency_minutes[1]


\* the command looked at has been handled
CommandReturned == call.fn = "_process_update" /\ ret # NotReturned

\* the characters that separate the entries of a list argument
Separators == {",", " "}

\* the argument holds no entry at all
NoEntry(args) == \A i \in 1..Len(args) : args[i] \in Separators

\* the entry of the argument that starts at position i is a valid HH:MM time
ValidTimeAt(args, i) ==
    /\ i + 4 <= Len(args)
    /\ ValidHHMM(SubSeq(args, i, i + 4))
    /\ i = 1 \/ args[i - 1] \in Separators
    /\ i + 4 = Len(args) \/ args[i + 5] \in Separators

\* one of the entries of the argument is a valid HH:MM time
HasValidTime(args) == \E i \in 1..Len(args) : ValidTimeAt(args, i)

\* the first word of the argument, <<>> when it has none
FirstWord(args) ==
    LET starts == {i \in 1..Len(args) : args[i] # " "}
    IN  IF starts = {} THEN <<>>
        ELSE LET a == CHOOSE i \in starts : \A j \in starts : i <= j
                 ends == {i \in a..Len(args) : i = Len(args) \/ args[i + 1] = " "}
                 b == CHOOSE i \in ends : \A j \in ends : i <= j
             IN  SubSeq(args, a, b)

\* the word is a decimal number with an optional sign
IsNumber(w) ==
    LET body == IF w # <<>> /\ w[1] \in {"-", "+"} THEN Tail(w) ELSE w
    IN  body # <<>> /\ \A i \in 1..Len(body) : body[i] \in DigitChars

RECURSIVE DecimalValue(_)
DecimalValue(body) ==
    IF body = <<>> THEN 0
    ELSE DecimalValue(SubSeq(body, 1, Len(body) - 1)) * 10 + DigitVal(body[Len(body)])

NumberValue(w) ==
    IF w[1] = "-" THEN 0 - DecimalValue(Tail(w))
    ELSE IF w[1] = "+" THEN DecimalValue(Tail(w))
    ELSE DecimalValue(w)

\* the command is one the bot rejects
Rejected(cmd, args) ==
    CASE cmd = "/setsymbols" -> NoEntry(args)
      [] cmd = "/settimes" -> ~HasValidTime(args)
      [] cmd = "/setfrequency" ->
            \/ FirstWord(args) = <<>>
            \/ ~IsNumber(FirstWord(args))
            \/ NumberValue(FirstWord(args)) <= 0
            \/ NumberValue(FirstWord(args)) < 5
      [] OTHER -> FALSE

\* C30: /setsymbols with no symbol, /settimes with no entry that is a valid
\* HH:MM time, and /setfrequency with a missing, non-numeric, non-positive or
\* below-5 argument leave the registry document exactly as it was: no entry
\* is created and none is modified.
C30_RejectedCommandChangesNothing ==
    (CommandReturned /\ Rejected(call.cmd, call.args)) => ret[1] = call.data

\* /setfrequency 3 from a chat that has no entry has been handled
C30_Witness ==
    /\ CommandReturned
    /\ call.cmd = "/setfrequency"
    /\ call.args = <<"3">>
    /\ call.chat_id = 5
    /\ call.data = DayRegistryA
    /\ Rejected(call.cmd, call.args)

\* the entry a command of chat c starts from: the stored one, or the defaults
\* of a recipient not yet in the registry
EntryBefore(data, c) ==
    IF EntryOf(data, c) = None
    THEN [chat_id |-> c, subscribed |-> TRUE, symbols |-> None,
          times |-> None, frequency_minutes |-> None]
    ELSE EntryOf(data, c)[1]

\* the minutes of the day the triggers of an entry are compared at
C29Minutes == TickMinutes \cup {0, 60, 125, 1260, 1439}

\* the times of an entry: its own list, or the configured report times
TimesOf(user) == IF user.times # None THEN user.times[1] ELSE REPORT_TIMES

\* minute m of the day is one of the times of the list
AtOneOf(times, m) == \E k \in 1..Len(times) : MinuteOf(times[k]) = m

\* the valid HH:MM entries of the argument from position i on, in order
RECURSIVE ValidTimesFrom(_, _)
ValidTimesFrom(args, i) ==
    IF i > Len(args) THEN <<>>
    ELSE IF ValidTimeAt(args, i)
    THEN <<SubSeq(args, i, i + 4)>> \o ValidTimesFrom(args, i + 5)
    ELSE ValidTimesFrom(args, i + 1)

\* the command is one the bot carries out: not rejected, and typed in the
\* digits 0-9
Succeeds(cmd, args) ==
    /\ ~Rejected(cmd, args)
    /\ \A i \in 1..Len(args) : args[i] \notin OtherDigitChars

\* every entry but that of chat c is as it was
OthersKept(before, after, c) ==
    \A k \in 1..Len(before) :
        before[k].user.chat_id # c => EntryOf(after, before[k].user.chat_id) = Some(before[k].user)

\* C29: a successful /settimes leaves the recipient with the valid HH:MM
\* entries of its argument as times and with no frequency, subscribed and
\* symbols as they were, and from then on its trigger is true exactly at the
\* minutes of that list; a successful /setfrequency leaves it with the number
\* typed as frequency and with times, subscribed and symbols as they were,
\* and from then on its trigger is true exactly at the minutes of its times
\* and at the multiples of the frequency.  No other entry changes.
C29_SetTimesSetFrequencyFrame ==
    (CommandReturned /\ Succeeds(call.cmd, call.args)) =>
        LET old == EntryBefore(call.data, call.chat_id)
            new == EntryBefore(ret[1], call.chat_id)
        IN  /\ EntryOf(ret[1], call.chat_id) # None
            /\ OthersKept(call.data, ret[1], call.chat_id)
            /\ new.subscribed = old.subscribed
            /\ new.symbols = old.symbols \/ call.cmd = "/setsymbols"
            /\ call.cmd = "/settimes" =>
                  /\ new.times = Some(ValidTimesFrom(call.args, 1))
                  /\ new.frequency_minutes = None
                  /\ \A m \in C29Minutes :
                        should_run(new, m, strftime_HM(m \div 60, m % 60))
                            <=> AtOneOf(ValidTimesFrom(call.args, 1), m)
            /\ call.cmd = "/setfrequency" =>
                  /\ new.frequency_minutes = Some(NumberValue(FirstWord(call.args)))
                  /\ new.times = old.times
                  /\ \A m \in C29Minutes :
                        should_run(new, m, strftime_HM(m \div 60, m % 60))
                            <=> \/ AtOneOf(TimesOf(new), m)
                                \/ m % NumberValue(FirstWord(call.args)) = 0

\* /settimes 08:00,20:00 has been carried out for the recipient that was on a
\* frequency of 60 minutes
C29_Witness ==
    /\ CommandReturned
    /\ call.cmd = "/settimes"
    /\ call.args = Arg0800_2000
    /\ call.chat_id = 1
    /\ call.data = DayRegistryA
    /\ Succeeds(call.cmd, call.args)
    /\ EntryOf(ret[1], 1)[1].times = Some(<<T0800, T2000>>)


\* the outcome of the k-th evaluation of the run
EvalOf(k) == outcome_of(call.outcomes, k)

\* the k-th symbol of the run came to a result that calls for an order of
\* this action and quantity
CallsFor(k, action, quantity) ==
    /\ k \in 1..Len(ret[1].evaluated)
    /\ EvalOf(k).kind = "result"
    /\ \/ /\ EvalOf(k).signal = "BUY"
          /\ action = "BUY"
          /\ quantity = SHARES_PER_TRADE
       \/ /\ EvalOf(k).signal = "SELL"
          /\ EvalOf(k).position > 0
          /\ action = "SELL"
          /\ quantity = EvalOf(k).position

\* the evaluations of the run that call for an order
OrderingEvaluations ==
    {k \in 1..Len(ret[1].evaluated) :
        \E action \in {"BUY", "SELL"}, quantity \in -3..SHARES_PER_TRADE :
            CallsFor(k, action, quantity)}

\* C31: the orders run_strategy places are, in the order of the symbols, one
\* BUY of SHARES_PER_TRADE shares for each evaluated symbol whose signal is
\* BUY and one SELL of the whole position for each whose signal is SELL while
\* its position is above zero; HOLD, a SELL with nothing held or with a short
\* position, and a symbol without a result place nothing, and neither does a
\* run whose connect() failed.
C31_OrdersFollowSignals ==
    StrategyReturned =>
        /\ ~call.connect_ok => ret[1].orders = <<>>
        /\ Len(ret[1].orders) = Cardinality(OrderingEvaluations)
        /\ \A n \in 1..Len(ret[1].orders) :
              LET order == ret[1].orders[n]
              IN  /\ order.quantity > 0
                  /\ \E k \in OrderingEvaluations :
                        /\ Cardinality({j \in OrderingEvaluations : j <= k}) = n
                        /\ order.symbol = ret[1].evaluated[k]
                        /\ CallsFor(k, order.action, order.quantity)

\* a run over three symbols has sold the five shares held of the first and
\* the third and bought the second
C31_Witness ==
    /\ StrategyReturned
    /\ call.connect_ok
    /\ call.symbols = Some(<<MSFT, AAPL, SPY>>)
    /\ EvalOf(1) = [kind |-> "result", signal |-> "SELL", position |-> 5]
    /\ EvalOf(2) = [kind |-> "result", signal |-> "BUY", position |-> 0]
    /\ Len(ret[1].orders) = 3
    /\ ret[1].orders[1] = [symbol |-> MSFT, action |-> "SELL", quantity |-> 5]


\* the last n items of a list, all of them when it has fewer
MostRecent(items, n) ==
    IF Len(items) <= n THEN items ELSE SubSeq(items, Len(items) - n + 1, Len(items))

\* C32: after any sequence of record_snapshot calls the stored history holds
\* at most PORTFOLIO_HISTORY_LENGTH snapshots, the most recent ones recorded,
\* in the order recorded; get_recent_history returns the most recent
\* PORTFOLIO_HISTORY_LENGTH of the stored ones; and a record_snapshot that got
\* no account value leaves the stored history as it was.
C32_HistoryTrimmed ==
    call.fn = "portfolio_history" =>
        /\ Len(call.file) <= call.length
        /\ call.file = MostRecent(call.recorded, call.length)
        /\ (ret # NotReturned /\ ret.fn = "get_recent_history") =>
              ret.value = MostRecent(call.file, call.length)
        /\ (ret # NotReturned /\ ret.fn = "record_snapshot" /\ ret.value = None) =>
              call.file = call.before


\* the reports of this tick made with include_strategy=True: generate_report
\* calls build_strategy_section, which calls run_strategy, for each of them
StrategyRuns == {k \in 1..Len(generated) : generated[k].report.include_strategy}

\* C33: in one clock minute run_strategy is executed at most once: the global
\* job and the dispatcher never both make a report with the strategy section
\* at the same tick.
C33_StrategyOncePerMinute == Cardinality(StrategyRuns) <= 1


\* evaluate_symbol has come to its signal
EvaluateReturned == call.fn = "evaluate_symbol" /\ ret # NotReturned

\* C34: with fewer than `slow` bars evaluate_symbol returns no result; with
\* exactly slow or slow+1 bars the slow SMA of row [-3] is undefined and the
\* signal is HOLD whatever the closes; BUY and SELL come only with at least
\* slow+2 bars.
C34_SignalNeedsSlowPlusTwo ==
    EvaluateReturned =>
        LET n == Len(call.bars)
            slow == call.settings.slow
        IN  /\ n < slow => ret[1].result = None
            /\ n >= slow => ret[1].result # None
            /\ n \in {slow, slow + 1} =>
                  /\ ret[1].result = Some("HOLD")
                  /\ ret[1].prev_slow = None
            /\ n = slow => ret[1].curr_slow = None
            /\ ret[1].result \in {Some("BUY"), Some("SELL")} => n >= slow + 2

\* slow+1 bars whose closes turn upwards at the last but one have come to
\* HOLD under the 20/50 setting
C34_Witness ==
    /\ EvaluateReturned
    /\ call.settings = [fast |-> 20, slow |-> 50]
    /\ Len(call.bars) = 51
    /\ call.bars[49].close = 100 /\ call.bars[50].close = 101
    /\ ret[1].result = Some("HOLD")
    /\ ret[1].prev_slow = None
    /\ ret[1].curr_slow # None


\* the minutes of the day of the default times 08:00 and 20:00
DefaultTimeMinutes == {8 * 60, 20 * 60}

\* C35: a subscribed recipient with a frequency and no times of its own is
\* due at the ticks 08:00 and 20:00, and its report is delivered or fails
\* there, whether or not the frequency divides those minutes.
C35_FrequencyKeepsDefaultTimes ==
    \A k \in 1..Len(ur.users) :
        (/\ Processed(k)
         /\ ur.users[k].subscribed
         /\ ur.users[k].frequency_minutes # None
         /\ ur.users[k].times = None
         /\ clock \in DefaultTimeMinutes)
        => LET c == ur.users[k].chat_id
           IN  /\ In(c, due)
               /\ Delivered(c) \/ Failed(c)

\* the tick of 08:00, minute 480, has delivered the report of a recipient on
\* a frequency of 45 minutes with no times of its own
C35_Witness ==
    /\ clock = 480
    /\ 480 % 45 # 0
    /\ \E k \in 1..Len(ur.users) :
          /\ Processed(k)
          /\ ur.users[k].subscribed
          /\ ur.users[k].frequency_minutes = Some(45)
          /\ ur.users[k].times = None
          /\ Delivered(ur.users[k].chat_id)


\* the keys the market summary has for an index proxy
SummaryKeysOf(symbol) ==
    IF symbol = SPY THEN {"SPY_price", "SPY_trend"}
    ELSE IF symbol = QQQ THEN {"QQQ_price", "QQQ_trend"}
    ELSE {}

\* the market summary has an entry for the index proxy
InSummary(summary, symbol) ==
    \E k \in 1..Len(summary) : summary[k].key \in SummaryKeysOf(symbol)

\* C36: an index proxy (SPY, QQQ) whose snapshot carries an error has no
\* price and no trend entry in the market summary.
C36_SummaryFromErrorFreeOnly ==
    ScannerReturned =>
        \A k \in 1..Len(ret[1].snapshot.stocks) :
            LET stock == ret[1].snapshot.stocks[k]
            IN  stock.error # None =>
                    ~InSummary(ret[1].snapshot.market_summary, stock.symbol)


\* the offset of the loop as a number, 0 before the first update
OffsetOf(st) == IF st.offset = None THEN 0 ELSE st.offset[1]

\* how often update id was handed to _process_update
TimesHanded(st, id) == Cardinality({k \in 1..Len(st.handed) : st.handed[k] = id})

\* C37: each update is handed to _process_update at most once, the offset
\* never decreases, an update whose handler raised is not handed again, and
\* no update is skipped: the updates handed are those below the offset, one
\* after the other, and every update left of a batch that a raise cut short
\* has been handed since or is at or above the offset, to be fetched again.
C37_EachUpdateOnceInOrder ==
    [][call.fn = "run_bot" =>
          /\ OffsetOf(call') >= OffsetOf(call)
          /\ \A id \in 1..MaxUpdates : TimesHanded(call', id) <= 1
          /\ call'.handed = [k \in 1..Len(call'.handed) |-> k]
          /\ Len(call'.handed) = (IF OffsetOf(call') = 0 THEN 0 ELSE OffsetOf(call') - 1)
          /\ \A k \in 1..Len(call'.batch) : call'.batch[k] = OffsetOf(call') + k - 1
                                            \/ (call'.offset = None /\ call'.batch[k] = k)
          /\ \A id \in call'.dropped :
                \/ TimesHanded(call', id) = 1
                \/ id >= OffsetOf(call') /\ id <= call'.arrived
    ]_vars

\* the handler of the first update of a batch raised, and the two updates
\* that followed it in that batch have been handed after a later poll
C37_Witness ==
    /\ call.fn = "run_bot"
    /\ call.raised = {1}
    /\ call.dropped = {2, 3}
    /\ call.handed = <<1, 2, 3>>
    /\ call.batch = <<>>
    /\ call.offset = Some(4)

====
